---- MODULE Spec2Model ----
(***************************************************************************)
(* Model of the leaderboard-driven position monitoring engine,             *)
(* src/src/processors/HyperliquidProcessor.ts (class HyperliquidProcessor).*)
(*                                                                         *)
(* Numbers.  The API delivers szi, positionValue and marginUsed as decimal *)
(* strings; a string is modelled as a Text record, [ok, v]: the numeral of *)
(* the integer v, or (ok = FALSE) a text parseFloat cannot read.  A        *)
(* JavaScript number is a Num record, [nan, n, d]: the rational n/d (d > 0)*)
(* or NaN, so that value/marginUsed is computed exactly.                   *)
(***************************************************************************)
EXTENDS Integers, Sequences, FiniteSets, TLC

VARIABLES
  isRunning,            \* this.isRunning
  ws,                   \* this.ws: a connection id, or NoConn (null)
  topAddresses,         \* this.topAddresses, in insertion order
  leaderboardUpdateInterval, \* this.leaderboardUpdateInterval is set (timer active)
  userPositions,        \* this.userPositions: address -> id of its Map object, or NoMap
  heap,                 \* the Map objects: id -> (coin -> position or Absent)
  activeSubscriptions,  \* this.activeSubscriptions
  subscriptionQueue,    \* this.subscriptionQueue
  isSubscribing,        \* this.isSubscribing
  seenAlerts,           \* this.seenAlerts, in insertion order
  conns,                \* the WebSocket objects created by connectWebSocket
  reconnectTimers,      \* delays of the pending setTimeout(() => this.connectWebSocket(), 5000)
  sm,                   \* the startMonitoring() call: where it is suspended
  pass,                 \* the processSubscriptionQueue() call: where it is suspended
  refresh,              \* the updateLeaderboardAndAdjustSubscriptions() call in flight
  handlers,             \* the processFills() calls in flight
  ev,                   \* what the last step did, for the handlers the properties name
  probe                 \* input and result of a direct call of the pure functions

vars == <<isRunning, ws, topAddresses, leaderboardUpdateInterval, userPositions,
          heap, activeSubscriptions, subscriptionQueue, isSubscribing, seenAlerts,
          conns, reconnectTimers, sm, pass, refresh, handlers, ev, probe>>

(***************************************************************************)
(* Program constants.                                                      *)
(***************************************************************************)
MIN_LEVERAGE == 30
MIN_POSITION_VALUE == 100000
VALUE_BUCKET == 10000
SEEN_ALERTS_CAP == 1000
SEEN_ALERTS_KEEP == 500
RECONNECT_DELAY == 5000

(***************************************************************************)
(* Numbers and texts.                                                      *)
(***************************************************************************)
Txt(v) == [ok |-> TRUE, v |-> v]
BadTxt == [ok |-> FALSE, v |-> 0]

Num(n) == [nan |-> FALSE, n |-> n, d |-> 1]
NaN == [nan |-> TRUE, n |-> 0, d |-> 1]

\* parseFloat: the number a numeral denotes, NaN for any other text.
ParseFloat(t) == IF t.ok THEN Num(t.v) ELSE NaN

\* Math.abs
MathAbs(x) == IF x.nan THEN NaN ELSE [x EXCEPT !.n = IF x.n < 0 THEN -x.n ELSE x.n]

\* x / y for y > 0 (the only division the code performs).
Div(x, y) == IF x.nan \/ y.nan THEN NaN ELSE [nan |-> FALSE, n |-> x.n * y.d, d |-> x.d * y.n]

\* x > 0, x >= k for an integer k: every comparison with NaN is false.
GtZero(x) == ~x.nan /\ x.n > 0
Geq(x, k) == ~x.nan /\ x.n >= k * x.d

\* Math.floor and Math.round (round half up) of a non-negative number.
MathFloor(x) == x.n \div x.d
MathRound(x) == (2 * x.n + x.d) \div (2 * x.d)

(***************************************************************************)
(* Positions (HyperliquidPosition).  The leverage field is absent, an      *)
(* object without a value key, or an object with a value.                  *)
(***************************************************************************)
LevAbsent == [kind |-> "absent", value |-> 0]
LevNoValue == [kind |-> "novalue", value |-> 0]
LevValue(v) == [kind |-> "value", value |-> v]

Pos(coin, szi, value, margin, lev) ==
  [coin |-> coin, szi |-> szi, positionValue |-> value, marginUsed |-> margin, leverage |-> lev]

\* calculateLeverage without the test of the explicit leverage field (a variant).
CalculateLeverageMarginOnly(position) ==
  LET positionValue == MathAbs(ParseFloat(position.positionValue))
      marginUsed == ParseFloat(position.marginUsed)
  IN  IF GtZero(marginUsed) THEN Div(positionValue, marginUsed) ELSE Num(0)

\* calculateLeverage
CalculateLeverage(position) ==
  LET positionValue == MathAbs(ParseFloat(position.positionValue))
      marginUsed == ParseFloat(position.marginUsed)
  IN  IF position.leverage.kind = "value"
      THEN Num(position.leverage.value)      \* position.leverage.value || 0
      ELSE IF GtZero(marginUsed) THEN Div(positionValue, marginUsed) ELSE Num(0)

\* isQualifyingPosition with a value threshold one higher (a variant).
IsQualifyingPositionStrict(position) ==
  LET positionSize == ParseFloat(position.szi)
      positionValue == MathAbs(ParseFloat(position.positionValue))
      leverage == CalculateLeverage(position)
  IN  /\ GtZero(positionSize)
      /\ Geq(positionValue, MIN_POSITION_VALUE + 1)
      /\ Geq(leverage, MIN_LEVERAGE)

\* isQualifyingPosition without the test of the side (a variant).
IsQualifyingPositionAnySide(position) ==
  LET positionValue == MathAbs(ParseFloat(position.positionValue))
      leverage == CalculateLeverage(position)
  IN  Geq(positionValue, MIN_POSITION_VALUE) /\ Geq(leverage, MIN_LEVERAGE)

\* isQualifyingPosition
IsQualifyingPosition(position) ==
  LET positionSize == ParseFloat(position.szi)
      positionValue == MathAbs(ParseFloat(position.positionValue))
      leverage == CalculateLeverage(position)
      isLong == GtZero(positionSize)
      meetsValue == Geq(positionValue, MIN_POSITION_VALUE)
      meetsLeverage == Geq(leverage, MIN_LEVERAGE)
  IN  isLong /\ meetsValue /\ meetsLeverage

(***************************************************************************)
(* Bounds of the model.                                                    *)
(***************************************************************************)
MaxHandlers == 2      \* processFills() calls in flight at once
MaxFills == 1         \* fills carried by one stream message
MaxConns == 2         \* WebSocket objects alive at once
MaxTimers == 1        \* reconnect timers pending at once
MaxRefreshes == 1     \* periodic refreshes counted (Spec runs no more than these)

Addrs == {"a1", "a2"}
AddrSeq == <<"a1", "a2">>
\* The ranking of the specification of the subscription batches: t01, t02, ...
MaxTargets == 25      \* addresses of that ranking
TargetName(i) == (IF i < 10 THEN "t0" ELSE "t") \o ToString(i)
TargetSeq == [i \in 1..MaxTargets |-> TargetName(i)]
Targets == { TargetSeq[i] : i \in 1..MaxTargets }
Coins == {"BTC", "ETH"}

NoConn == 0
NoMap == 0
ConnIds == 1..MaxConns
HandlerIds == 1..MaxHandlers
\* One Map object per address and per handler, and one being created.
MapIds == 1..(Cardinality(Addrs) + MaxHandlers + 1)

(***************************************************************************)
(* Map<string, HyperliquidPosition>: a function from the coins it holds.   *)
(***************************************************************************)
EmptyMap == [c \in {} |-> 0]
MapHas(m, k) == k \in DOMAIN m
MapSet(m, k, v) == [c \in (DOMAIN m) \cup {k} |-> IF c = k THEN v ELSE m[c]]
MapDelete(m, k) == [c \in (DOMAIN m) \ {k} |-> m[c]]

\* The value of "no position" where a position is recorded in ev.
NoPos == Pos("", BadTxt, BadTxt, BadTxt, LevAbsent)
MapGet(m, k) == IF MapHas(m, k) THEN m[k] ELSE NoPos

\* The positions a snapshot may hold for a coin, by name.
PosOf(coin, kind) ==
  CASE kind = "small" -> Pos(coin, Txt(1), Txt(50000), Txt(4000), LevAbsent)
    [] kind = "q150" -> Pos(coin, Txt(2), Txt(150000), Txt(4000), LevAbsent)
    [] kind = "q160" -> Pos(coin, Txt(2), Txt(160000), Txt(4000), LevAbsent)
    [] kind = "short" -> Pos(coin, Txt(-2), Txt(150000), Txt(4000), LevAbsent)
    [] kind = "lowlev" -> Pos(coin, Txt(2), Txt(150000), Txt(6000), LevAbsent)
    [] kind = "q120x" -> Pos(coin, Txt(3), Txt(120000), Txt(0), LevValue(40))

\* The snapshots of the positions of one address: clearinghouseState's
\* assetPositions, after the map/filter of lines 356-358 and 426-428.
Snapshots(coins, kinds) ==
  UNION { [cs -> kinds] : cs \in SUBSET coins }
SnapMap(s) == [c \in DOMAIN s |-> PosOf(c, s[c])]

(***************************************************************************)
(* The Map objects.  An object id has no meaning: after every step the     *)
(* ids are renumbered in the order in which userPositions and the handlers *)
(* refer to them, and unreferenced objects are dropped.                    *)
(***************************************************************************)
\* The addresses of the store in use, in the order of the ranking.
StoreOrder(up) == IF DOMAIN up = Addrs THEN AddrSeq ELSE TargetSeq

Refs(up, hs) ==
  LET order == StoreOrder(up)
  IN  [i \in 1..(Len(order) + MaxHandlers) |->
         IF i <= Len(order) THEN up[order[i]] ELSE hs[i - Len(order)].map]

Renumber(up, hp, hs) ==
  LET refs == Refs(up, hs)
      \* where each object is referred to for the first time
      firsts == SelectSeq([i \in DOMAIN refs |-> i],
                          LAMBDA i : refs[i] # NoMap /\ \A j \in 1..(i - 1) : refs[j] # refs[i])
      rank(x) == IF x = NoMap THEN NoMap
                 ELSE CHOOSE k \in DOMAIN firsts : refs[firsts[k]] = x
  IN  [up |-> [a \in DOMAIN up |-> rank(up[a])],
       hp |-> [k \in DOMAIN hp |-> IF k <= Len(firsts) THEN hp[refs[firsts[k]]] ELSE EmptyMap],
       hs |-> [h \in HandlerIds |-> [hs[h] EXCEPT !.map = rank(hs[h].map)]]]

\* An id no object has: new Map().
FreshMap(up, hs) ==
  LET refs == Refs(up, hs)
  IN  CHOOSE k \in DOMAIN heap : \A i \in DOMAIN refs : refs[i] # k

SetStore(up, hp, hs) ==
  LET r == Renumber(up, hp, hs)
  IN  /\ userPositions' = r.up
      /\ heap' = r.hp
      /\ handlers' = r.hs

\* this.userPositions.get(address), as a Map value (EmptyMap when there is none).
Table(a) == IF userPositions[a] = NoMap THEN EmptyMap ELSE heap[userPositions[a]]

(***************************************************************************)
(* Alerts and the dedup cache (emitPositionAlert).                         *)
(***************************************************************************)
AlertId(address, position) ==
  LET leverage == CalculateLeverage(position)
      positionValue == MathAbs(ParseFloat(position.positionValue))
  IN  <<address, position.coin,
        MathFloor(Div(positionValue, Num(VALUE_BUCKET))), MathFloor(leverage)>>

Alert(address, position) ==
  [from |-> address,
   symbol |-> position.coin,
   amount |-> MathAbs(ParseFloat(position.szi)).n,
   value_usd |-> MathAbs(ParseFloat(position.positionValue)).n,
   leverage |-> MathRound(CalculateLeverage(position)),
   side |-> "long"]

SeqHas(s, x) == \E i \in 1..Len(s) : s[i] = x
\* Array.from(set).slice(-k)
SliceLast(s, k) == IF Len(s) <= k THEN s ELSE SubSeq(s, Len(s) - k + 1, Len(s))

\* emitPositionAlert without the seenAlerts.has() test (a variant).
EmitPositionAlertNoDedup(seen, address, position) ==
  LET added == Append(seen, AlertId(address, position))
  IN  [seen |-> IF Len(added) > SEEN_ALERTS_CAP THEN SliceLast(added, SEEN_ALERTS_KEEP) ELSE added,
       emitted |-> <<Alert(address, position)>>]

\* emitPositionAlert with the cleanup test off by one (a variant).
EmitPositionAlertLateCleanup(seen, address, position) ==
  LET alertId == AlertId(address, position)
      added == Append(seen, alertId)
  IN  IF SeqHas(seen, alertId)
      THEN [seen |-> seen, emitted |-> <<>>]
      ELSE [seen |-> IF Len(added) > SEEN_ALERTS_CAP + 1
                     THEN SliceLast(added, SEEN_ALERTS_KEEP) ELSE added,
            emitted |-> <<Alert(address, position)>>]

\* emitPositionAlert: the cache after the call and the alerts handed to the callback.
EmitPositionAlert(seen, address, position) ==
  LET alertId == AlertId(address, position)
      added == Append(seen, alertId)
  IN  IF SeqHas(seen, alertId)
      THEN [seen |-> seen, emitted |-> <<>>]
      ELSE [seen |-> IF Len(added) > SEEN_ALERTS_CAP
                     THEN SliceLast(added, SEEN_ALERTS_KEEP) ELSE added,
            emitted |-> <<Alert(address, position)>>]

(***************************************************************************)
(* Variable groups and the state after construction.                       *)
(***************************************************************************)
connVars == <<ws, conns, reconnectTimers>>
subVars == <<topAddresses, leaderboardUpdateInterval, activeSubscriptions,
             subscriptionQueue, isSubscribing, sm, pass, refresh>>
storeVars == <<userPositions, heap, handlers>>

IdleHandler == [phase |-> "idle", addr |-> "", fills |-> <<>>, map |-> NoMap]
NoConnRec == [state |-> "none", viaReconnect |-> FALSE, sent |-> {}, dup |-> {}]
NoEvent == [op |-> "none", h |-> 0, addr |-> "", coin |-> "", note |-> "",
            previous |-> NoPos, current |-> NoPos, emitted |-> <<>>,
            added |-> <<>>, removed |-> <<>>, snap |-> EmptyMap]
IdleTask == [pc |-> "idle", conn |-> NoConn]
\* The position of processSubscriptionQueue: its await, the address being seeded
\* and the rest of its batch; with them a record of what the pass has done: the
\* frames sent in each batch it took from the queue, and the delays it awaited.
IdlePass == [pc |-> "idle", addr |-> "", batch |-> <<>>, frames |-> <<>>, delays |-> <<>>]
IdleRefresh == [pc |-> "idle", previous |-> <<>>, addr |-> "", batch |-> <<>>, n |-> 0]
NoProbe == [position |-> NoPos, done |-> FALSE, leverage |-> NaN, qualifying |-> FALSE]

Constructed ==
  /\ isRunning = FALSE
  /\ ws = NoConn
  /\ topAddresses = <<>>
  /\ leaderboardUpdateInterval = FALSE
  /\ userPositions = [a \in Addrs |-> NoMap]
  /\ heap = [k \in MapIds |-> EmptyMap]
  /\ activeSubscriptions = {}
  /\ subscriptionQueue = <<>>
  /\ isSubscribing = FALSE
  /\ seenAlerts = <<>>
  /\ conns = [c \in ConnIds |-> NoConnRec]
  /\ reconnectTimers = <<>>
  /\ sm = IdleTask
  /\ pass = IdlePass
  /\ refresh = IdleRefresh
  /\ handlers = [h \in HandlerIds |-> IdleHandler]
  /\ ev = NoEvent

(***************************************************************************)
(* Fill handling: handleWebSocketMessage, processFills, handleFill.        *)
(* processFills is not awaited by the message handler, so several calls    *)
(* are in flight at once; each is suspended at an await of handleFill.     *)
(***************************************************************************)
\* The responses of the clearinghouseState request: a snapshot, a payload
\* without assetPositions, or a failure (timeout, request error).
\* The answers to a clearinghouseState request that give no list of positions: an
\* error or a timeout (the catch of lines 368 and 457), a payload without
\* assetPositions (lines 353 and 422).
Failures == {"fail", "malformed"}
Ok(s) == [kind |-> "ok", snap |-> s]
Failed(f) == [kind |-> f, snap |-> EmptyMap]
Responses(coins, kinds) ==
  {Ok(s) : s \in Snapshots(coins, kinds)} \cup {Failed(f) : f \in Failures}

\* The test of the answer with a payload without assetPositions taken for a list
\* of no positions (a variant).
NoPositionListOnlyErrors(resp) == resp.kind = "fail"

\* handleFill and loadInitialPositions get no list of positions: the catch of
\* lines 368 and 457, the tests of lines 353 and 422.
NoPositionList(resp) == resp.kind \in Failures

\* handleFill taking a table without positions for a missing one (a variant).
BeginFillsEmptyIsMissing(addr, fills, up) ==
  IF fills = <<>> THEN IdleHandler
  ELSE IF up[addr] = NoMap \/ heap[up[addr]] = EmptyMap
       THEN [phase |-> "load", addr |-> addr, fills |-> fills, map |-> NoMap]
       ELSE [phase |-> "fetch", addr |-> addr, fills |-> fills, map |-> up[addr]]

\* handleFill, lines 398-408, for the first of `fills`: where the call is
\* suspended next.  With no fill left processFills returns.
BeginFills(addr, fills, up) ==
  IF fills = <<>> THEN IdleHandler
  ELSE IF up[addr] = NoMap
       THEN [phase |-> "load", addr |-> addr, fills |-> fills, map |-> NoMap]
       ELSE [phase |-> "fetch", addr |-> addr, fills |-> fills, map |-> up[addr]]

\* processFills without the test of line 385 (a variant).
FillMessageNoSkip(h, addr, fills, isSnapshot) ==
  /\ handlers[h].phase = "idle"
  /\ SetStore(userPositions, heap,
              [handlers EXCEPT ![h] = BeginFills(addr, fills, userPositions)])
  /\ ev' = [NoEvent EXCEPT !.op = IF isSnapshot THEN "replay" ELSE "message",
                           !.h = h, !.addr = addr]
  /\ UNCHANGED <<isRunning, seenAlerts, connVars, subVars, probe>>

\* A stream message handled only once the processFills calls before it have
\* returned (a variant).
FillMessageAwaited(h, addr, fills, isSnapshot) ==
  /\ \A g \in HandlerIds : handlers[g].phase = "idle"
  /\ IF isSnapshot
     THEN UNCHANGED storeVars
     ELSE SetStore(userPositions, heap,
                   [handlers EXCEPT ![h] = BeginFills(addr, fills, userPositions)])
  /\ ev' = [NoEvent EXCEPT !.op = IF isSnapshot THEN "replay" ELSE "message",
                           !.h = h, !.addr = addr]
  /\ UNCHANGED <<isRunning, seenAlerts, connVars, subVars, probe>>

\* A stream message arrives: handleWebSocketMessage and processFills up to
\* the first await.
FillMessage(h, addr, fills, isSnapshot) ==
  /\ handlers[h].phase = "idle"
  /\ IF isSnapshot
     THEN UNCHANGED storeVars
     ELSE SetStore(userPositions, heap,
                   [handlers EXCEPT ![h] = BeginFills(addr, fills, userPositions)])
  /\ ev' = [NoEvent EXCEPT !.op = IF isSnapshot THEN "replay" ELSE "message",
                           !.h = h, !.addr = addr]
  /\ UNCHANGED <<isRunning, seenAlerts, connVars, subVars, probe>>

\* loadInitialPositions called by handleFill (line 405) returns.
HandleFillLoaded(h, resp) ==
  LET hd == handlers[h]
      k == FreshMap(userPositions, handlers)
  IN  /\ hd.phase = "load"
      /\ IF NoPositionList(resp)
         THEN IF userPositions[hd.addr] = NoMap
              THEN \* line 407: no positions, return; processFills goes on
                   SetStore(userPositions, heap,
                            [handlers EXCEPT ![h] =
                               BeginFills(hd.addr, Tail(hd.fills), userPositions)])
              ELSE \* line 406 finds the table stored meanwhile; the request of line 412
                   SetStore(userPositions, heap,
                            [handlers EXCEPT ![h] = [hd EXCEPT !.phase = "fetch",
                                                               !.map = userPositions[hd.addr]]])
         ELSE \* line 364, then line 406 and the request of line 412
              SetStore([userPositions EXCEPT ![hd.addr] = k],
                       [heap EXCEPT ![k] = SnapMap(resp.snap)],
                       [handlers EXCEPT ![h] = [hd EXCEPT !.phase = "fetch", !.map = k]])
      /\ ev' = [NoEvent EXCEPT !.op = "load", !.h = h, !.addr = hd.addr,
                               !.coin = Head(hd.fills), !.note = resp.kind,
                               !.snap = SnapMap(resp.snap)]
      /\ UNCHANGED <<isRunning, seenAlerts, connVars, subVars, probe>>

\* The transition test of handleFill, line 437 (variant: level-triggered).
IsNewQualifyingLevel(previousPosition, currentPosition) ==
  IsQualifyingPosition(currentPosition)

\* The transition test of handleFill, line 437 (variant: a qualifying position
\* that differs from the stored one counts as new).
IsNewQualifyingOnChange(previousPosition, currentPosition) ==
  IsQualifyingPosition(currentPosition) /\ previousPosition # currentPosition

\* The transition test of handleFill, lines 434-437.
IsNewQualifying(previousPosition, currentPosition) ==
  LET wasQualifying == IF previousPosition # NoPos
                       THEN IsQualifyingPosition(previousPosition) ELSE FALSE
      isQualifying == IsQualifyingPosition(currentPosition)
  IN  isQualifying /\ ~wasQualifying

\* The table stored at line 455 with the positions of the table read kept where
\* the snapshot has none (a variant).
NewPositionsKeepStale(stored, updated) ==
  [c \in DOMAIN stored \cup DOMAIN updated |->
     IF c \in DOMAIN updated THEN updated[c] ELSE stored[c]]

\* newPositions, lines 451-454: a new Map of the positions of the snapshot.
NewPositions(stored, updated) == updated

\* The clearinghouseState request of handleFill (line 412) returns:
\* lines 420-459, and the next fill of the message.
HandleFillFetched(h, resp) ==
  LET hd == handlers[h]
      coin == Head(hd.fills)
      old == heap[hd.map]
      snap == SnapMap(resp.snap)
      previousPosition == MapGet(old, coin)
      currentPosition == MapGet(snap, coin)
      fire == currentPosition # NoPos /\ IsNewQualifying(previousPosition, currentPosition)
      r == IF fire THEN EmitPositionAlert(seenAlerts, hd.addr, currentPosition)
           ELSE [seen |-> seenAlerts, emitted |-> <<>>]
      \* lines 444 and 447 write the Map object read at line 402
      old2 == IF currentPosition # NoPos THEN MapSet(old, coin, currentPosition)
              ELSE IF previousPosition # NoPos THEN MapDelete(old, coin) ELSE old
      k == FreshMap(userPositions, handlers)
      up2 == [userPositions EXCEPT ![hd.addr] = k]
  IN  /\ hd.phase = "fetch"
      /\ IF NoPositionList(resp)
         THEN /\ SetStore(userPositions, heap,
                          [handlers EXCEPT ![h] = BeginFills(hd.addr, Tail(hd.fills), userPositions)])
              /\ seenAlerts' = seenAlerts
              /\ ev' = [NoEvent EXCEPT !.op = "nofetch", !.h = h, !.addr = hd.addr,
                                       !.coin = coin, !.note = resp.kind]
         ELSE /\ SetStore(up2,
                          [heap EXCEPT ![hd.map] = old2, ![k] = NewPositions(old, snap)],
                          [handlers EXCEPT ![h] = BeginFills(hd.addr, Tail(hd.fills), up2)])
              /\ seenAlerts' = r.seen
              /\ ev' = [op |-> "fill", h |-> h, addr |-> hd.addr, coin |-> coin,
                        note |-> resp.kind,
                        previous |-> previousPosition, current |-> currentPosition,
                        emitted |-> r.emitted, added |-> <<>>, removed |-> <<>>,
                        snap |-> snap]
      /\ UNCHANGED <<isRunning, connVars, subVars, probe>>

(***************************************************************************)
(* The streaming connection: connectWebSocket and its handlers.  A         *)
(* WebSocket object is connecting, open, closing (close() called on an     *)
(* open socket), aborting (close() called before it opened: ws then emits  *)
(* error and close) or closed.  A closed object this.ws no longer refers   *)
(* to is dropped.                                                          *)
(***************************************************************************)
\* startMonitoring() rejected: WhaleBot.start catches and calls process.exit(1)
\* (main.ts lines 134-137).
Exited == sm.pc = "failed"

\* test() returned true and WhaleBot.start goes on to startMonitoring() (main.ts
\* lines 114-118) in the same turn of the event loop: no event is handled in
\* between.
MidTurn == sm.pc = "tested"

\* An event can be handled.
Alive == ~Exited /\ ~MidTurn

HasFreeConn == \E c \in ConnIds : conns[c].state \in {"none", "closed"}
FreeConn ==
  CHOOSE c \in ConnIds :
    /\ conns[c].state \in {"none", "closed"}
    /\ \A d \in ConnIds : conns[d].state \in {"none", "closed"} => c <= d

CleanConns(cs, w) ==
  [c \in ConnIds |-> IF cs[c].state = "closed" /\ c # w THEN NoConnRec ELSE cs[c]]

\* this.ws.readyState === WebSocket.OPEN, for this.ws = w
IsOpen(cs, w) == w # NoConn /\ cs[w].state = "open"

\* new WebSocket(...) and this.ws = it, lines 106: the connections and this.ws.
ConnectWebSocket(via) ==
  LET c == FreeConn
  IN  /\ ws' = c
      /\ conns' = CleanConns([conns EXCEPT ![c] = [state |-> "connecting",
                                                   viaReconnect |-> via, sent |-> {},
                                                   dup |-> {}]], c)

\* The close handler's test, line 124 (variant: only a connection that was open
\* is reconnected).
ShouldReconnectIfOpened(c) == isRunning /\ conns[c].state \in {"open", "closing"}

\* The close handler without its test of line 124 (a variant).
ShouldReconnectAlways(c) == TRUE

\* The close handler's test, line 124.
ShouldReconnect(c) == isRunning

\* The close handler, lines 122-128.
OnClose(c) ==
  /\ ShouldReconnect(c) => Len(reconnectTimers) < MaxTimers
  /\ reconnectTimers' = IF ShouldReconnect(c) THEN Append(reconnectTimers, RECONNECT_DELAY)
                      ELSE reconnectTimers
  /\ conns' = CleanConns([conns EXCEPT ![c] = [NoConnRec EXCEPT !.state = "closed"]], ws)
  /\ ws' = ws

(***************************************************************************)
(* Subscriptions: subscribeToAllAddresses, processSubscriptionQueue,       *)
(* subscribeToAddress, loadInitialPositions.                               *)
(***************************************************************************)
SUBSCRIPTION_BATCH_SIZE == 10
SUBSCRIPTION_DELAY == 100

\* subscribeToAddress up to its await, lines 289-313: the subscription set, the
\* frames sent, and whether loadInitialPositions is awaited.
\* A subscribe frame for a goes out on connection w (line 307): the server holds
\* the subscription (sent); a frame for an address it already holds is a second
\* subscription of the same address on that connection (dup).
SendSubscribe(cs, w, a) ==
  [cs EXCEPT ![w].sent = @ \cup {a},
             ![w].dup = IF a \in cs[w].sent THEN @ \cup {a} ELSE @]

\* An unsubscribe frame for a goes out on connection w (line 335).
SendUnsubscribe(cs, w, a) == [cs EXCEPT ![w].sent = @ \ {a}]

\* subscribeToAddress without line 308, activeSubscriptions.add (a variant).
SubscribeToAddressNoRecord(a, act, cs, w, up) ==
  IF ~IsOpen(cs, w) \/ a \in act
  THEN [act |-> act, cs |-> cs, seed |-> FALSE]
  ELSE [act |-> act, cs |-> SendSubscribe(cs, w, a), seed |-> up[a] = NoMap]

SubscribeToAddress(a, act, cs, w, up) ==
  IF ~IsOpen(cs, w) \/ a \in act
  THEN [act |-> act, cs |-> cs, seed |-> FALSE]
  ELSE [act |-> act \cup {a},
        cs |-> SendSubscribe(cs, w, a),
        seed |-> up[a] = NoMap]

\* unsubscribeFromAddress, lines 318-339.
UnsubscribeFromAddress(a, act, cs, w) ==
  IF ~IsOpen(cs, w) \/ a \notin act
  THEN [act |-> act, cs |-> cs]
  ELSE [act |-> act \ {a}, cs |-> SendUnsubscribe(cs, w, a)]

\* The loop of processSubscriptionQueue from one await to the next, lines 263-286:
\* it stops at the loadInitialPositions of an address ("seed"), at the delay
\* between two batches ("delay"), or at its end ("idle").
RECURSIVE RunBatch(_, _, _, _, _, _)
RunBatch(batch, queue, act, cs, w, up) ==
  IF batch = <<>>
  THEN [pc |-> IF queue # <<>> THEN "delay" ELSE "idle", addr |-> "", batch |-> <<>>,
        queue |-> queue, act |-> act, cs |-> cs]
  ELSE LET r == SubscribeToAddress(Head(batch), act, cs, w, up)
       IN  IF r.seed
           THEN [pc |-> "seed", addr |-> Head(batch), batch |-> Tail(batch),
                 queue |-> queue, act |-> r.act, cs |-> r.cs]
           ELSE RunBatch(Tail(batch), queue, r.act, r.cs, w, up)

\* splice taking one address more than the batch size (a variant).
SpliceHeadWide(queue) ==
  IF Len(queue) <= SUBSCRIPTION_BATCH_SIZE THEN queue
  ELSE SubSeq(queue, 1, SUBSCRIPTION_BATCH_SIZE + 1)

\* subscriptionQueue.splice(0, SUBSCRIPTION_BATCH_SIZE)
SpliceHead(queue) ==
  IF Len(queue) <= SUBSCRIPTION_BATCH_SIZE THEN queue ELSE SubSeq(queue, 1, SUBSCRIPTION_BATCH_SIZE)
SpliceRest(queue) ==
  IF Len(queue) <= SUBSCRIPTION_BATCH_SIZE THEN <<>>
  ELSE SubSeq(queue, SUBSCRIPTION_BATCH_SIZE + 1, Len(queue))

\* The subscription pass goes on to its next await with the state r of RunBatch,
\* startMonitoring awaiting it at line 92; at its end startMonitoring starts the
\* refresh timer (lines 95-97).
PassGoesOn(r, frames) ==
  /\ pass' = [pc |-> r.pc, addr |-> r.addr, batch |-> r.batch,
              frames |-> [frames EXCEPT ![Len(frames)] =
                            @ + Cardinality(r.act \ activeSubscriptions)],
              delays |-> IF r.pc = "delay" THEN Append(pass.delays, SUBSCRIPTION_DELAY)
                         ELSE pass.delays]
  /\ subscriptionQueue' = r.queue
  /\ activeSubscriptions' = r.act
  /\ isSubscribing' = (r.pc # "idle")
  /\ IF r.pc = "idle"
     THEN sm' = [pc |-> "done", conn |-> NoConn] /\ leaderboardUpdateInterval' = TRUE
     ELSE /\ sm' = [pc |-> "subscribing", conn |-> NoConn]
          /\ UNCHANGED leaderboardUpdateInterval

(***************************************************************************)
(* startMonitoring, stop and the events of the connection.                 *)
(***************************************************************************)
\* The results of the leaderboard request: a failure (line 202), a response
\* without data (line 156), or a payload and the addresses parsed from it, which
\* are none when it holds no array of entries with an address (lines 161-191).
\* The ranking names the addresses in the order of AddrSeq.
Leaderboards(addrs) ==
  {[kind |-> "fail", addresses |-> <<>>], [kind |-> "empty", addresses |-> <<>>]} \cup
  { [kind |-> "ok", addresses |-> SelectSeq(AddrSeq, LAMBDA a : a \in S)] : S \in SUBSET addrs }

\* What the leaderboard request returned: "fail", "empty", "none" for a payload
\* no address was parsed from, "ok" otherwise.
LeaderboardNote(resp) ==
  IF resp.kind = "ok" /\ resp.addresses = <<>> THEN "none" ELSE resp.kind

\* updateLeaderboard with the set cleared when the request fails (a variant).
UpdateLeaderboardClearOnFail(top, resp) ==
  IF resp.kind = "ok" THEN resp.addresses ELSE <<>>

\* updateLeaderboard: this.topAddresses after the request returned.
UpdateLeaderboard(top, resp) == IF resp.kind = "ok" THEN resp.addresses ELSE top

\* The outcomes of the two requests of test(), lines 579-598.
TestResults == {"ok", "leaderboard-down", "api-down"}

\* WhaleBot.start calls test() (main.ts line 114): test() up to its await of
\* connectWebSocket, lines 574-605.  A failed meta request ends it at the outer
\* catch; a failed leaderboard request only makes its result false.
Test(r) ==
  /\ Alive /\ sm.pc = "idle" /\ HasFreeConn
  /\ IF r = "api-down"
     THEN /\ sm' = [sm EXCEPT !.pc = "untested"]
          /\ UNCHANGED <<ws, conns>>
     ELSE /\ ConnectWebSocket(FALSE)
          /\ sm' = [pc |-> IF r = "ok" THEN "test" ELSE "testbad", conn |-> FreeConn]
  /\ ev' = NoEvent
  /\ UNCHANGED <<isRunning, reconnectTimers, topAddresses, leaderboardUpdateInterval,
                 activeSubscriptions, subscriptionQueue, isSubscribing, pass, refresh,
                 storeVars, seenAlerts, probe>>

\* test() awaits the connection.
Testing == sm.pc \in {"test", "testbad"}

\* The timeout of connectWebSocket (lines 136-140) while test() awaits the
\* connection: the catch at line 611, test() returns false.
TestConnectTimeout ==
  /\ Alive /\ Testing /\ ~IsOpen(conns, ws)
  /\ sm' = [pc |-> "untested", conn |-> NoConn]
  /\ ev' = NoEvent
  /\ UNCHANGED <<isRunning, connVars, topAddresses, leaderboardUpdateInterval,
                 activeSubscriptions, subscriptionQueue, isSubscribing, pass, refresh,
                 storeVars, seenAlerts, probe>>

\* startMonitoring up to the await of updateLeaderboard, lines 76-86; WhaleBot.start
\* calls it when test() returned true (main.ts lines 116-118).
StartMonitoring ==
  /\ sm.pc = "tested" /\ ~isRunning
  /\ isRunning' = TRUE
  /\ sm' = [sm EXCEPT !.pc = "leaderboard"]
  /\ ev' = NoEvent
  /\ UNCHANGED <<connVars, topAddresses, leaderboardUpdateInterval, activeSubscriptions,
                 subscriptionQueue, isSubscribing, pass, refresh, storeVars, seenAlerts, probe>>

\* updateLeaderboard returns to startMonitoring, which calls connectWebSocket.
StartLeaderboardFetched(resp) ==
  /\ Alive /\ sm.pc = "leaderboard" /\ HasFreeConn
  /\ topAddresses' = UpdateLeaderboard(topAddresses, resp)
  /\ ConnectWebSocket(FALSE)
  /\ sm' = [pc |-> "connecting", conn |-> FreeConn]
  /\ ev' = NoEvent
  /\ UNCHANGED <<isRunning, reconnectTimers, leaderboardUpdateInterval, activeSubscriptions,
                 subscriptionQueue, isSubscribing, pass, refresh, storeVars, seenAlerts, probe>>

\* The open event of connection c, lines 108-111.  When startMonitoring awaits
\* it, subscribeToAllAddresses and processSubscriptionQueue run to their first
\* await (lines 247-263).
ConnOpened(c) ==
  LET cs == [conns EXCEPT ![c].state = "open"]
      queue == topAddresses
      r == RunBatch(SpliceHead(queue), SpliceRest(queue), activeSubscriptions, cs, ws,
                    userPositions)
  IN  /\ Alive /\ conns[c].state = "connecting"
      /\ IF sm.pc = "connecting" /\ sm.conn = c
         THEN /\ ws' = ws
              /\ IF isSubscribing \/ queue = <<>>
                 THEN /\ conns' = cs
                      /\ subscriptionQueue' = queue
                      /\ sm' = [pc |-> "done", conn |-> NoConn]
                      /\ leaderboardUpdateInterval' = TRUE
                      /\ UNCHANGED <<pass, activeSubscriptions, isSubscribing>>
                 ELSE /\ conns' = r.cs
                      /\ PassGoesOn(r, <<0>>)
         ELSE IF Testing /\ sm.conn = c
         THEN \* test(), lines 606-610: this.ws.close(); this.ws = null
              /\ conns' = IF ws = NoConn THEN cs
                          ELSE CleanConns([cs EXCEPT ![ws].state =
                                             IF @ = "open" THEN "closing" ELSE @], NoConn)
              /\ ws' = NoConn
              /\ sm' = [pc |-> IF sm.pc = "test" /\ ws = c THEN "tested" ELSE "untested",
                        conn |-> NoConn]
              /\ UNCHANGED <<pass, subscriptionQueue, activeSubscriptions, isSubscribing,
                             leaderboardUpdateInterval>>
         ELSE /\ conns' = cs
              /\ ws' = ws
              /\ UNCHANGED <<sm, pass, subscriptionQueue, activeSubscriptions, isSubscribing,
                             leaderboardUpdateInterval>>
      /\ ev' = NoEvent
      /\ UNCHANGED <<isRunning, reconnectTimers, topAddresses, refresh, storeVars,
                     seenAlerts, probe>>

\* The pass giving up the rest of its batch and of the queue when
\* loadInitialPositions has failed (a variant).
PassSeededGivesUp(resp) ==
  LET k == FreshMap(userPositions, handlers)
      up == IF resp.kind = "ok" THEN [userPositions EXCEPT ![pass.addr] = k] ELSE userPositions
      hp == IF resp.kind = "ok" THEN [heap EXCEPT ![k] = SnapMap(resp.snap)] ELSE heap
      r == IF resp.kind = "ok"
           THEN RunBatch(pass.batch, subscriptionQueue, activeSubscriptions, conns, ws, up)
           ELSE RunBatch(<<>>, <<>>, activeSubscriptions, conns, ws, up)
  IN  /\ Alive /\ pass.pc = "seed"
      /\ SetStore(up, hp, handlers)
      /\ conns' = r.cs
      /\ PassGoesOn(r, pass.frames)
      /\ ev' = [NoEvent EXCEPT !.op = "seeded", !.addr = pass.addr, !.note = resp.kind,
                               !.snap = SnapMap(resp.snap)]
      /\ UNCHANGED <<isRunning, ws, reconnectTimers, topAddresses, refresh, seenAlerts, probe>>

\* loadInitialPositions called by subscribeToAddress (line 314) returns, and the
\* pass goes on.
PassSeeded(resp) ==
  LET k == FreshMap(userPositions, handlers)
      up == IF resp.kind = "ok" THEN [userPositions EXCEPT ![pass.addr] = k] ELSE userPositions
      hp == IF resp.kind = "ok" THEN [heap EXCEPT ![k] = SnapMap(resp.snap)] ELSE heap
      r == RunBatch(pass.batch, subscriptionQueue, activeSubscriptions, conns, ws, up)
  IN  /\ Alive /\ pass.pc = "seed"
      /\ SetStore(up, hp, handlers)
      /\ conns' = r.cs
      /\ PassGoesOn(r, pass.frames)
      /\ ev' = [NoEvent EXCEPT !.op = "seeded", !.addr = pass.addr, !.note = resp.kind,
                               !.snap = SnapMap(resp.snap)]
      /\ UNCHANGED <<isRunning, ws, reconnectTimers, topAddresses, refresh, seenAlerts, probe>>

\* The delay between two batches (lines 271-273) is over: the pass takes the
\* next batch from the queue.
PassDelayed ==
  LET r == RunBatch(SpliceHead(subscriptionQueue), SpliceRest(subscriptionQueue),
                    activeSubscriptions, conns, ws, userPositions)
  IN  /\ Alive /\ pass.pc = "delay"
      /\ conns' = r.cs
      /\ PassGoesOn(r, Append(pass.frames, 0))
      /\ ev' = NoEvent
      /\ UNCHANGED <<isRunning, ws, reconnectTimers, topAddresses, refresh, storeVars,
                     seenAlerts, probe>>

\* Connection c fails before it opened: the error handler (lines 130-133) rejects
\* the promise of connectWebSocket, then the close handler runs.
ConnFailed(c) ==
  /\ Alive /\ conns[c].state \in {"connecting", "aborting"}
  /\ OnClose(c)
  /\ sm' = IF sm.pc = "connecting" /\ sm.conn = c THEN [sm EXCEPT !.pc = "failed"]
           ELSE IF Testing /\ sm.conn = c THEN [pc |-> "untested", conn |-> NoConn]
           ELSE sm
  /\ ev' = [NoEvent EXCEPT !.op = "failed"]
  /\ UNCHANGED <<isRunning, topAddresses, leaderboardUpdateInterval, activeSubscriptions,
                 subscriptionQueue, isSubscribing, pass, refresh, storeVars, seenAlerts, probe>>

\* Connection c, which had opened, closes: the close handler.
ConnClosed(c) ==
  /\ Alive /\ conns[c].state \in {"open", "closing"}
  /\ OnClose(c)
  /\ ev' = [NoEvent EXCEPT !.op = "close"]
  /\ UNCHANGED <<isRunning, subVars, storeVars, seenAlerts, probe>>

\* The timeout of connectWebSocket, lines 136-140, while startMonitoring awaits
\* the connection.
StartConnectTimeout ==
  /\ Alive /\ sm.pc = "connecting" /\ ~IsOpen(conns, ws)
  /\ sm' = [sm EXCEPT !.pc = "failed"]
  /\ ev' = NoEvent
  /\ UNCHANGED <<isRunning, connVars, topAddresses, leaderboardUpdateInterval,
                 activeSubscriptions, subscriptionQueue, isSubscribing, pass, refresh, storeVars,
                 seenAlerts, probe>>

\* A reconnect timer set by the close handler (line 126) fires.
ReconnectTimerFired ==
  /\ Alive /\ reconnectTimers # <<>> /\ HasFreeConn
  /\ reconnectTimers' = Tail(reconnectTimers)
  /\ ConnectWebSocket(TRUE)
  /\ ev' = [NoEvent EXCEPT !.op = "reconnect"]
  /\ UNCHANGED <<isRunning, subVars, storeVars, seenAlerts, probe>>

\* stop(), lines 553-572.
Stop ==
  LET closed(st) == CASE st = "connecting" -> "aborting"
                      [] st = "open" -> "closing"
                      [] OTHER -> st
  IN  /\ Alive /\ isRunning
      /\ isRunning' = FALSE
      /\ leaderboardUpdateInterval' = FALSE
      /\ ws' = NoConn
      /\ conns' = CleanConns(IF ws = NoConn THEN conns
                             ELSE [conns EXCEPT ![ws].state = closed(@)], NoConn)
      /\ activeSubscriptions' = {}
      /\ SetStore([a \in DOMAIN userPositions |-> NoMap], heap, handlers)
      /\ seenAlerts' = <<>>
      /\ ev' = NoEvent
      /\ UNCHANGED <<reconnectTimers, topAddresses, subscriptionQueue, isSubscribing,
                     sm, pass, refresh, probe>>

(***************************************************************************)
(* The periodic refresh: updateLeaderboardAndAdjustSubscriptions.          *)
(***************************************************************************)
SeqSet(q) == { q[i] : i \in DOMAIN q }

\* newAddresses, lines 214-219: in the current set, not in the previous one.
NewAddresses(previous, current) ==
  SelectSeq(current, LAMBDA a : a \notin SeqSet(previous))

\* removedAddresses as the whole previous set (a variant).
RemovedAddressesAll(previous, current) == previous

\* removedAddresses, lines 222-227: in the previous set, not in the current one.
RemovedAddresses(previous, current) ==
  SelectSeq(previous, LAMBDA a : a \notin SeqSet(current))

\* The loop over removedAddresses, lines 230-233: unsubscribeFromAddress, then
\* userPositions.delete.
RECURSIVE RunRemoved(_, _, _, _, _)
RunRemoved(removed, act, cs, w, up) ==
  IF removed = <<>>
  THEN [act |-> act, cs |-> cs, up |-> up]
  ELSE LET u == UnsubscribeFromAddress(Head(removed), act, cs, w)
           deleted == [up EXCEPT ![Head(removed)] = NoMap]
       IN  IF u.act = act /\ deleted = up
           THEN RunRemoved(Tail(removed), act, cs, w, up)
           ELSE RunRemoved(Tail(removed), u.act, u.cs, w, deleted)

\* The refresh goes on to its next await with the state r of the loop over
\* newAddresses (lines 236-238), or ends.
RefreshGoesOn(r) ==
  /\ refresh' = IF r.pc = "seed"
                THEN [refresh EXCEPT !.pc = "seed", !.previous = <<>>, !.addr = r.addr,
                                     !.batch = r.batch]
                ELSE [IdleRefresh EXCEPT !.n = refresh.n]
  /\ activeSubscriptions' = r.act
  /\ conns' = r.cs

\* The refresh timer fires (lines 95-97): updateLeaderboardAndAdjustSubscriptions
\* up to its await of updateLeaderboard, lines 207-211.  The timer period is an
\* hour and every request of a refresh has a timeout of seconds, so one refresh
\* is in flight at a time.  refresh.n counts the refreshes started, up to
\* MaxRefreshes.
RefreshTick ==
  /\ Alive /\ leaderboardUpdateInterval /\ refresh.pc = "idle"
  /\ refresh' = [IdleRefresh EXCEPT !.pc = "fetch", !.previous = topAddresses,
                                    !.n = IF refresh.n < MaxRefreshes THEN refresh.n + 1
                                           ELSE refresh.n]
  /\ ev' = NoEvent
  /\ UNCHANGED <<isRunning, connVars, topAddresses, leaderboardUpdateInterval,
                 activeSubscriptions, subscriptionQueue, isSubscribing, sm, pass,
                 storeVars, seenAlerts, probe>>

\* updateLeaderboard returns to the refresh: lines 213-238 up to the first
\* loadInitialPositions awaited.
RefreshFetched(resp) ==
  LET current == UpdateLeaderboard(topAddresses, resp)
      newAddresses == NewAddresses(refresh.previous, current)
      removedAddresses == RemovedAddresses(refresh.previous, current)
      u == RunRemoved(removedAddresses, activeSubscriptions, conns, ws, userPositions)
      r == RunBatch(newAddresses, <<>>, u.act, u.cs, ws, u.up)
  IN  /\ Alive /\ refresh.pc = "fetch"
      /\ topAddresses' = current
      /\ SetStore(u.up, heap, handlers)
      /\ RefreshGoesOn(r)
      /\ ev' = [NoEvent EXCEPT !.op = "refreshed", !.note = LeaderboardNote(resp),
                               !.added = newAddresses, !.removed = removedAddresses]
      /\ UNCHANGED <<isRunning, ws, reconnectTimers, leaderboardUpdateInterval,
                     subscriptionQueue, isSubscribing, sm, pass, seenAlerts, probe>>

\* loadInitialPositions called by subscribeToAddress (line 314) returns to the
\* refresh, and the loop over newAddresses goes on.
RefreshSeeded(resp) ==
  LET k == FreshMap(userPositions, handlers)
      up == IF resp.kind = "ok" THEN [userPositions EXCEPT ![refresh.addr] = k]
            ELSE userPositions
      hp == IF resp.kind = "ok" THEN [heap EXCEPT ![k] = SnapMap(resp.snap)] ELSE heap
      r == RunBatch(refresh.batch, <<>>, activeSubscriptions, conns, ws, up)
  IN  /\ Alive /\ refresh.pc = "seed"
      /\ SetStore(up, hp, handlers)
      /\ RefreshGoesOn(r)
      /\ ev' = [NoEvent EXCEPT !.op = "seeded", !.addr = refresh.addr, !.note = resp.kind,
                               !.snap = SnapMap(resp.snap)]
      /\ UNCHANGED <<isRunning, ws, reconnectTimers, topAddresses, leaderboardUpdateInterval,
                     subscriptionQueue, isSubscribing, sm, pass, seenAlerts, probe>>

\* The refresh timer fires, for the refreshes that are counted.
RefreshTickCounted == refresh.n < MaxRefreshes /\ RefreshTick

SeedResponses == Responses({"BTC"}, {"q150"})

Init ==
  /\ Constructed
  /\ probe = NoProbe

Next ==
  \/ \E r \in TestResults : Test(r)
  \/ TestConnectTimeout
  \/ StartMonitoring
  \/ \E r \in Leaderboards(Addrs) : StartLeaderboardFetched(r)
  \/ \E c \in ConnIds : ConnOpened(c)
  \/ \E c \in ConnIds : ConnFailed(c)
  \/ \E c \in ConnIds : ConnClosed(c)
  \/ StartConnectTimeout
  \/ ReconnectTimerFired
  \/ \E r \in SeedResponses : PassSeeded(r)
  \/ RefreshTickCounted
  \/ \E r \in Leaderboards(Addrs) : RefreshFetched(r)
  \/ \E r \in SeedResponses : RefreshSeeded(r)
  \/ Stop

Spec == Init /\ [][Next]_vars

(***************************************************************************)
(* SpecFill: the fill handling of a running engine.  It starts after a     *)
(* successful startMonitoring(): the addresses are subscribed, and each    *)
(* has the table its seeding request returned, or none when that failed.   *)
(* The socket of test() has closed meanwhile, with the engine running, so  *)
(* the timer of its close handler is pending.                              *)
(***************************************************************************)
FillAddrs == {"a1"}
FillSeqs(coins) == UNION { [1..n -> coins] : n \in 1..MaxFills }

Monitoring(addrs) ==
  /\ isRunning = TRUE
  /\ ws = 2
  /\ conns = [c \in ConnIds |-> IF c = 2 THEN [state |-> "open", viaReconnect |-> FALSE,
                                               sent |-> addrs, dup |-> {}]
                                ELSE NoConnRec]
  /\ reconnectTimers = <<RECONNECT_DELAY>>
  /\ topAddresses = SelectSeq(AddrSeq, LAMBDA a : a \in addrs)
  /\ leaderboardUpdateInterval = TRUE
  /\ activeSubscriptions = addrs
  /\ subscriptionQueue = <<>>
  /\ isSubscribing = FALSE
  /\ sm = [pc |-> "done", conn |-> NoConn]
  /\ pass = IdlePass
  /\ refresh = IdleRefresh

InitFillOn(addrs, coins, kinds) ==
  /\ Monitoring(addrs)
  /\ \E seeded \in SUBSET addrs :
       \E t \in [seeded -> Snapshots(coins, kinds)] :
         LET up == [a \in Addrs |-> IF a \in seeded
                                    THEN CHOOSE i \in 1..Len(AddrSeq) : AddrSeq[i] = a
                                    ELSE NoMap]
             hp == [k \in MapIds |->
                      IF k <= Len(AddrSeq) /\ AddrSeq[k] \in seeded
                      THEN SnapMap(t[AddrSeq[k]]) ELSE EmptyMap]
             r == Renumber(up, hp, [h \in HandlerIds |-> IdleHandler])
         IN  userPositions = r.up /\ heap = r.hp
  /\ handlers = [h \in HandlerIds |-> IdleHandler]
  /\ seenAlerts = <<>>
  /\ ev = NoEvent
  /\ probe = NoProbe

\* The handler ids have no meaning: a message takes the first idle one of hs.
FirstIdle(hs, h) ==
  /\ h \in hs
  /\ handlers[h].phase = "idle"
  /\ \A g \in hs : handlers[g].phase = "idle" => h <= g

NextFillOn(hs, addrs, coins, kinds) ==
  \/ \E h \in hs, a \in addrs, f \in FillSeqs(coins), b \in BOOLEAN :
       FirstIdle(hs, h) /\ FillMessage(h, a, f, b)
  \/ \E h \in hs, r \in Responses(coins, kinds) : HandleFillLoaded(h, r)
  \/ \E h \in hs, r \in Responses(coins, kinds) : HandleFillFetched(h, r)

\* One instrument, three kinds of position, overlapping handlers.
InitFill == InitFillOn(FillAddrs, {"BTC"}, {"small", "q150", "q160"})
NextFill == NextFillOn(HandlerIds, FillAddrs, {"BTC"}, {"small", "q150", "q160"})
SpecFill == InitFill /\ [][NextFill]_vars

\* Two instruments, one handler at a time.
InitFillAll == InitFillOn(FillAddrs, Coins, {"small", "q150"})
NextFillAll == NextFillOn({1}, FillAddrs, Coins, {"small", "q150"})
SpecFillAll == InitFillAll /\ [][NextFillAll]_vars

(***************************************************************************)
(* SpecRefresh: the periodic refresh of a running engine, any number of    *)
(* times, with the connection closing and being made again in between.     *)
(***************************************************************************)
InitRefresh == \E addrs \in SUBSET Addrs : InitFillOn(addrs, {"BTC"}, {"q150"})

NextRefresh ==
  \/ RefreshTick
  \/ \E r \in Leaderboards(Addrs) : RefreshFetched(r)
  \/ \E r \in SeedResponses : RefreshSeeded(r)
  \/ \E c \in ConnIds : ConnOpened(c)
  \/ \E c \in ConnIds : ConnFailed(c)
  \/ \E c \in ConnIds : ConnClosed(c)
  \/ ReconnectTimerFired

SpecRefresh == InitRefresh /\ [][NextRefresh]_vars

\* What is pending happens: a timer that was set fires, a request that was sent
\* returns or times out (lines 149, 347), a connection attempt opens or fails.
\* Nothing makes an open connection close.
FairRefresh ==
  /\ SpecRefresh
  /\ WF_vars(RefreshTick)
  /\ WF_vars(\E r \in Leaderboards(Addrs) : RefreshFetched(r))
  /\ WF_vars(\E r \in SeedResponses : RefreshSeeded(r))
  /\ WF_vars(ReconnectTimerFired)
  /\ WF_vars(\E c \in ConnIds : ConnOpened(c) \/ ConnFailed(c))

(***************************************************************************)
(* SpecChurn: the refreshes of a running engine together with the fills of *)
(* the addresses subscribed on its connection, one message at a time.      *)
(***************************************************************************)
\* The server streams the fills of a: a is subscribed on an open connection.
OnWire(a) == \E c \in ConnIds : conns[c].state = "open" /\ a \in conns[c].sent

ChurnResponses == Responses({"BTC"}, {"q150"})

NextChurn ==
  \/ RefreshTick
  \/ \E r \in Leaderboards(Addrs) : RefreshFetched(r)
  \/ \E r \in SeedResponses : RefreshSeeded(r)
  \/ \E a \in Addrs, f \in FillSeqs({"BTC"}), b \in BOOLEAN :
       FirstIdle({1}, 1) /\ OnWire(a) /\ FillMessage(1, a, f, b)
  \/ \E r \in ChurnResponses : HandleFillLoaded(1, r)
  \/ \E r \in ChurnResponses : HandleFillFetched(1, r)

SpecChurn == InitRefresh /\ [][NextChurn]_vars

(***************************************************************************)
(* SpecBatch: startMonitoring over a ranking of up to MaxTargets           *)
(* addresses, and the refresh that follows it.  It starts where test() has *)
(* returned true: it has closed its socket, whose close event is still to  *)
(* come.  The snapshot requests of this specification are all answered     *)
(* with one position, and a connection that closed is not replaced: the    *)
(* failures of the requests and the reconnects are explored in Spec and    *)
(* SpecRefresh.                                                            *)
(***************************************************************************)
BatchMapIds == 1..(MaxTargets + MaxHandlers + 1)
BatchSeeds == {Ok([c \in {"BTC"} |-> "q150"])}
\* The first leaderboard names the first n addresses of the ranking, a later
\* one a segment of it.
StartRankings == { SubSeq(TargetSeq, 1, n) : n \in 0..MaxTargets }
BatchRankings == { SubSeq(TargetSeq, i, j) : i \in {1, 12}, j \in {11, MaxTargets} }
BatchLeaderboards(rankings) ==
  {[kind |-> "fail", addresses |-> <<>>]} \cup
  { [kind |-> "ok", addresses |-> q] : q \in rankings }

InitBatch ==
  /\ isRunning = FALSE
  /\ ws = NoConn
  /\ conns = [c \in ConnIds |-> [NoConnRec EXCEPT !.state = IF c = 1 THEN "closing" ELSE "none"]]
  /\ reconnectTimers = <<>>
  /\ topAddresses = <<>>
  /\ leaderboardUpdateInterval = FALSE
  /\ activeSubscriptions = {}
  /\ subscriptionQueue = <<>>
  /\ isSubscribing = FALSE
  /\ sm = [pc |-> "tested", conn |-> NoConn]
  /\ pass = IdlePass
  /\ refresh = IdleRefresh
  /\ userPositions = [a \in Targets |-> NoMap]
  /\ heap = [k \in BatchMapIds |-> EmptyMap]
  /\ handlers = [h \in HandlerIds |-> IdleHandler]
  /\ seenAlerts = <<>>
  /\ ev = NoEvent
  /\ probe = NoProbe

\* startMonitoring without the test of line 77 (a variant): the second call goes
\* on to its request of the leaderboard.
StartMonitoringAgainUnguarded ==
  /\ Alive /\ isRunning /\ sm.pc = "done"
  /\ sm' = [sm EXCEPT !.pc = "leaderboard"]
  /\ ev' = [NoEvent EXCEPT !.op = "start"]
  /\ UNCHANGED <<isRunning, connVars, topAddresses, leaderboardUpdateInterval,
                 activeSubscriptions, subscriptionQueue, isSubscribing, pass, refresh,
                 storeVars, seenAlerts, probe>>

\* startMonitoring called while the engine runs, lines 76-80: it returns.
StartMonitoringAgain ==
  /\ Alive /\ isRunning
  /\ ev' = [NoEvent EXCEPT !.op = "start"]
  /\ UNCHANGED <<isRunning, connVars, subVars, storeVars, seenAlerts, probe>>

NextBatch ==
  \/ StartMonitoring
  \/ StartMonitoringAgain
  \/ \E r \in BatchLeaderboards(StartRankings) : StartLeaderboardFetched(r)
  \/ \E c \in ConnIds : ConnOpened(c)
  \/ \E c \in ConnIds : ConnClosed(c)
  \/ \E r \in BatchSeeds : PassSeeded(r)
  \/ PassDelayed
  \/ RefreshTickCounted
  \/ \E r \in BatchLeaderboards(BatchRankings) : RefreshFetched(r)
  \/ \E r \in BatchSeeds : RefreshSeeded(r)

SpecBatch == InitBatch /\ [][NextBatch]_vars

(***************************************************************************)
(* SpecQual: isQualifyingPosition and calculateLeverage called on one      *)
(* position drawn from a grid around the thresholds.                       *)
(***************************************************************************)
ProbeTexts(vs) == {Txt(v) : v \in vs} \cup {BadTxt}
ProbePositions ==
  { Pos("BTC", szi, value, margin, lev) :
      szi \in ProbeTexts({-2, 0, 2}),
      value \in ProbeTexts({-150000, 0, 99999, 100000, 150000}),
      margin \in ProbeTexts({-4000, 0, 3333, 3334, 5000}),
      lev \in {LevAbsent, LevNoValue} \cup {LevValue(v) : v \in {0, 29, 30, 40}} }

InitQual ==
  /\ Constructed
  /\ \E p \in ProbePositions : probe = [NoProbe EXCEPT !.position = p]

Classify ==
  /\ ~probe.done
  /\ probe' = [position |-> probe.position, done |-> TRUE,
               leverage |-> CalculateLeverage(probe.position),
               qualifying |-> IsQualifyingPosition(probe.position)]
  /\ UNCHANGED <<isRunning, seenAlerts, connVars, subVars, storeVars, ev>>

SpecQual == InitQual /\ [][Classify]_vars

\* The magnitude of an integer, and the fields of the probed position as integers.
Magnitude(i) == IF i < 0 THEN -i ELSE i
ProbeLong == probe.position.szi.ok /\ probe.position.szi.v > 0
ProbeValueAtLeast(k) ==
  probe.position.positionValue.ok /\ Magnitude(probe.position.positionValue.v) >= k
ProbeExplicit == probe.position.leverage.kind = "value"
ProbeMarginPositive == probe.position.marginUsed.ok /\ probe.position.marginUsed.v > 0
\* leverage >= k, leverage being the explicit value, else |value| / marginUsed, else 0
ProbeLeverageAtLeast(k) ==
  IF ProbeExplicit THEN probe.position.leverage.value >= k
  ELSE IF ProbeMarginPositive
       THEN /\ probe.position.positionValue.ok
            /\ Magnitude(probe.position.positionValue.v) >= k * probe.position.marginUsed.v
       ELSE 0 >= k

\* C4: isQualifying(position) is true iff the signed size is positive and the
\* absolute USD value is >= 100000 and the leverage is >= 30; the boundary
\* values qualify, a short or zero-size position never does.
C4_IsQualifyingIff ==
  probe.done =>
    (probe.qualifying <=> (ProbeLong /\ ProbeValueAtLeast(100000) /\ ProbeLeverageAtLeast(30)))

\* C4 witness: a long of exactly 100000 USD at leverage exactly 30 has been classified
\* as qualifying.
C4_Witness ==
  /\ probe.done /\ probe.qualifying
  /\ probe.position.positionValue = Txt(100000)
  /\ probe.position.leverage = LevValue(30)

\* C5: the explicit leverage is used when present; otherwise leverage is
\* |value| / marginUsed; with no explicit leverage and marginUsed not positive
\* the leverage is 0 and the position never qualifies.
C5_LeverageDerivation ==
  probe.done =>
    /\ ProbeExplicit => probe.leverage = Num(probe.position.leverage.value)
    /\ (~ProbeExplicit /\ ProbeMarginPositive /\ probe.position.positionValue.ok) =>
         /\ ~probe.leverage.nan
         /\ probe.leverage.n * probe.position.marginUsed.v
              = Magnitude(probe.position.positionValue.v) * probe.leverage.d
    /\ (~ProbeExplicit /\ ~ProbeMarginPositive) =>
         (probe.leverage = Num(0) /\ ~probe.qualifying)

\* C5 witness: a long of 150000 USD without explicit leverage and with marginUsed 0
\* has been given leverage 0.
C5_Witness ==
  /\ probe.done
  /\ probe.position.leverage = LevAbsent
  /\ probe.position.marginUsed = Txt(0)
  /\ probe.position.szi = Txt(2)
  /\ probe.position.positionValue = Txt(150000)
  /\ probe.leverage = Num(0)

(***************************************************************************)
(* Properties of fill handling.    In a step that processes a snapshot    *)
(* response (ev'.op = "fill"), the unprimed variables are the state the    *)
(* response met: Table(a) is the stored table of a, and TableRead is the   *)
(* Map object the handler read at line 402.                                *)
(***************************************************************************)
FillStep == ev'.op = "fill"
TableRead == heap[handlers[ev'.h].map]
SnapshotApplied == heap'[userPositions'[ev'.addr]]
AlertsFor(emitted, a, c) == {i \in 1..Len(emitted) : emitted[i].from = a /\ emitted[i].symbol = c}

\* C1: alerts are edge-triggered: when the stored position for an instrument is
\* qualifying and the fresh snapshot's position for it is qualifying too, no alert
\* is emitted; an alert for a present->present transition is emitted only if the
\* new position qualifies and the stored one did not.
C1_EdgeTriggered ==
  [][FillStep =>
       LET stored == MapGet(Table(ev'.addr), ev'.coin)
       IN  /\ (IsQualifyingPosition(stored) /\ IsQualifyingPosition(ev'.current))
                => ev'.emitted = <<>>
           /\ (stored # NoPos /\ ev'.current # NoPos /\ ev'.emitted # <<>>)
                => (IsQualifyingPosition(ev'.current) /\ ~IsQualifyingPosition(stored))]_vars

C3_EveryInstrumentChecked ==
  [][FillStep =>
       \A c \in DOMAIN SnapshotApplied :
         (IsQualifyingPosition(SnapshotApplied[c])
            /\ ~IsQualifyingPosition(MapGet(Table(ev'.addr), c)))
           => \/ AlertsFor(ev'.emitted, ev'.addr, c) # {}
              \/ SeqHas(seenAlerts, AlertId(ev'.addr, SnapshotApplied[c]))]_vars

\* C6: once an alert with a signature has been emitted and recorded, no further
\* alert with that signature is emitted while the signature is in the cache; every
\* alert emitted is recorded.
C6_NoRepeatWhileCached ==
  [][ev'.emitted # <<>> =>
       /\ ~SeqHas(seenAlerts, AlertId(ev'.addr, ev'.current))
       /\ SeqHas(seenAlerts', AlertId(ev'.addr, ev'.current))]_vars

\* C6 witness: a qualifying transition whose signature was in the cache has been
\* processed without an alert.
C6_Witness ==
  /\ ev.op = "fill"
  /\ IsNewQualifying(ev.previous, ev.current)
  /\ ev.emitted = <<>>
  /\ SeqHas(seenAlerts, AlertId(ev.addr, ev.current))

(***************************************************************************)
(* SpecDedup: emitPositionAlert called for a long run of qualifying        *)
(* positions of one address and instrument.  Position number k has value   *)
(* 100000 + 10000 k at margin 1000, so its signature is (a1, BTC, 10 + k,  *)
(* 100 + 10 k).  Each call takes the next new position, or one of the      *)
(* positions alerted before: the first ever, the oldest or the newest of   *)
(* the cache.                                                              *)
(***************************************************************************)
MaxSignatures == 1003     \* distinct positions alerted in one run

DedupPosition(k) == Pos("BTC", Txt(1), Txt(100000 + 10000 * k), Txt(1000), LevAbsent)
\* The number of the position a signature of this run stands for.
DedupNumber(alertId) == alertId[3] - 10
\* The next new position.  New positions are recorded in increasing order and only
\* position 0 is ever recorded again, so the largest number is among the last two.
DedupNext ==
  LET n == Len(seenAlerts)
      last == DedupNumber(seenAlerts[n])
      before == IF n > 1 THEN DedupNumber(seenAlerts[n - 1]) ELSE 0
  IN  IF n = 0 THEN 0 ELSE 1 + (IF last >= before THEN last ELSE before)

InitDedup ==
  /\ Monitoring(FillAddrs)
  /\ userPositions = [a \in Addrs |-> NoMap]
  /\ heap = [k \in MapIds |-> EmptyMap]
  /\ handlers = [h \in HandlerIds |-> IdleHandler]
  /\ seenAlerts = <<>>
  /\ ev = NoEvent
  /\ probe = NoProbe

\* emitPositionAlert(address, position), called at line 440.
EmitCall(address, position) ==
  LET r == EmitPositionAlert(seenAlerts, address, position)
  IN  /\ seenAlerts' = r.seen
      /\ ev' = [NoEvent EXCEPT !.op = "emit", !.addr = address, !.coin = position.coin,
                               !.current = position, !.emitted = r.emitted]
      /\ UNCHANGED <<isRunning, connVars, subVars, storeVars, probe>>

EmitNew ==
  /\ DedupNext < MaxSignatures
  /\ EmitCall("a1", DedupPosition(DedupNext))

EmitAgain ==
  /\ seenAlerts # <<>>
  /\ \E k \in {0, DedupNumber(seenAlerts[1]), DedupNumber(seenAlerts[Len(seenAlerts)])} :
       EmitCall("a1", DedupPosition(k))

SpecDedup == InitDedup /\ [][EmitNew \/ EmitAgain]_vars

\* C7: the cache is insertion-ordered and bounded: when recording a signature makes
\* its size exceed 1000 it is reduced to exactly the 500 most recently recorded
\* signatures, so its size never exceeds 1000 after an emission, and every evicted
\* signature is eligible to emit again.
C7_Eviction ==
  [][ev'.emitted # <<>> =>
       LET recorded == Append(seenAlerts, AlertId(ev'.addr, ev'.current))
           n == Len(recorded)
       IN  /\ Len(seenAlerts') <= 1000
           /\ IF n > 1000
              THEN /\ Len(seenAlerts') = 500
                   /\ \A i \in 1..500 : seenAlerts'[i] = recorded[n - 500 + i]
                   /\ \A i \in 1..(n - 500) :
                        /\ ~SeqHas(seenAlerts', recorded[i])
                        /\ EmitPositionAlert(seenAlerts', ev'.addr,
                                             DedupPosition(DedupNumber(recorded[i]))).emitted # <<>>
              ELSE seenAlerts' = recorded]_vars

\* C7 witness: after an eviction, the first signature ever recorded has been
\* emitted again.
C7_Witness ==
  /\ ev.op = "emit"
  /\ ev.current = DedupPosition(0)
  /\ ev.emitted # <<>>
  /\ Len(seenAlerts) > 500
  /\ seenAlerts[Len(seenAlerts)] = AlertId("a1", DedupPosition(0))

(***************************************************************************)
(* Properties of the connection, checked under Spec.                      *)
(***************************************************************************)
\* The engine is running with nothing of startMonitoring, of a subscription pass
\* or of a reconnection left to happen.
Settled ==
  /\ isRunning
  /\ sm.pc = "done"
  /\ pass.pc = "idle"
  /\ reconnectTimers = <<>>

TargetSet == { topAddresses[i] : i \in DOMAIN topAddresses }

\* The addresses a subscribe frame was sent for on the connection this.ws refers to.
SentOnCurrent == IF IsOpen(conns, ws) THEN conns[ws].sent ELSE {}

\* C8: once a connection made by the reconnect timer is open and the engine has
\* nothing left to do, a subscribe frame has been sent on it for every address of
\* the target set.
C8_ResubscribedAfterReconnect ==
  (Settled /\ IsOpen(conns, ws) /\ conns[ws].viaReconnect) => TargetSet \subseteq SentOnCurrent

\* C9: while the engine runs, every address recorded in activeSubscriptions has a
\* subscribe frame on the current open connection; with the connection lost the
\* set is empty.
C9_SubscriptionsClearedOnLoss ==
  isRunning => activeSubscriptions \subseteq SentOnCurrent

\* C10: every close event while the engine is running, that of a failed
\* reconnect attempt included, sets one timer of RECONNECT_DELAY (5000 ms), and
\* a timer that fires makes a new connection attempt which becomes this.ws.
C10_CloseTriggersReconnect ==
  /\ [][(ev'.op \in {"close", "failed"} /\ isRunning)
          => reconnectTimers' = Append(reconnectTimers, 5000)]_vars
  /\ [][(ev'.op = "reconnect")
          => /\ reconnectTimers' = Tail(reconnectTimers)
             /\ ws' # NoConn
             /\ conns'[ws'].state = "connecting"
             /\ conns'[ws'].viaReconnect]_vars

\* A reconnect attempt failed while the engine was running and set the next timer.
C10_Witness ==
  /\ ev.op = "failed"
  /\ isRunning /\ sm.pc = "done"
  /\ reconnectTimers = <<5000>>

(***************************************************************************)
(* Properties of stop() and of the number of connections, checked under    *)
(* Spec.                                                                   *)
(***************************************************************************)
\* startMonitoring() has not been called yet.
NotStarted == sm.pc \in {"idle", "test", "testbad", "tested", "untested"}

\* stop() has been called: only startMonitoring sets isRunning and only stop()
\* resets it.
StopCalled == ~isRunning /\ ~NotStarted

\* The connections that are connecting or open.
LiveConns == { c \in ConnIds : conns[c].state \in {"connecting", "open"} }

\* C11: a close event after stop() has been called sets no reconnect timer.
C11_NoReconnectAfterStop ==
  [][(ev'.op \in {"close", "failed"} /\ StopCalled) => reconnectTimers' = reconnectTimers]_vars

\* The connection closed by stop() has closed, and no timer was set.
C11_Witness ==
  /\ ev.op = "close"
  /\ StopCalled
  /\ reconnectTimers = <<>>

\* C12: after stop() has been called no new connection is made.
C12_NoConnectionAfterStop ==
  [][StopCalled => \A c \in ConnIds :
                     conns'[c].state = "connecting" => conns[c].state = "connecting"]_vars

\* C13: after stop() has been called the refresh timer is not active.
C13_RefreshCancelledByStop ==
  StopCalled => ~leaderboardUpdateInterval

\* C14: at most one connection is connecting or open.
C14_OneConnection ==
  Cardinality(LiveConns) <= 1

(***************************************************************************)
(* Properties of the periodic refresh, checked under SpecRefresh.  In a    *)
(* step with ev'.op = "refreshed" updateLeaderboard has returned to the    *)
(* refresh: refresh.previous is the set it copied at line 210.             *)
(***************************************************************************)
Refreshed == ev'.op = "refreshed"

\* C15: a refresh whose leaderboard request fails or returns no data keeps the
\* target set, computes no added and no removed address, leaves the
\* subscriptions, the frames sent and the position store as they are, and ends
\* with the timer active for the next tick.
C15_FailedRefreshKeepsAll ==
  [][(Refreshed /\ ev'.note \in {"fail", "empty"})
       => /\ topAddresses' = topAddresses
          /\ topAddresses' = refresh.previous
          /\ ev'.added = <<>> /\ ev'.removed = <<>>
          /\ activeSubscriptions' = activeSubscriptions
          /\ conns' = conns
          /\ \A a \in Addrs :
               /\ (userPositions'[a] = NoMap) = (userPositions[a] = NoMap)
               /\ userPositions[a] # NoMap => heap'[userPositions'[a]] = heap[userPositions[a]]
          /\ refresh'.pc = "idle"
          /\ leaderboardUpdateInterval']_vars

\* A failed refresh has run with addresses subscribed and tables stored.
C15_Witness ==
  /\ ev.op = "refreshed" /\ ev.note = "fail"
  /\ activeSubscriptions # {}
  /\ \E a \in Addrs : userPositions[a] # NoMap

\* C16: a refresh whose payload yields no address keeps the target set and
\* removes no address.
C16_NoAddressesKeepsTargets ==
  [][(Refreshed /\ ev'.note = "none")
       => /\ topAddresses' = topAddresses
          /\ ev'.removed = <<>>
          /\ activeSubscriptions' = activeSubscriptions]_vars

\* C17: with P the previous and N the new target set, added = N \ P and
\* removed = P \ N, the two are disjoint, and an address in both P and N keeps
\* its subscription state, its frames and its table.
C17_LeaderboardDiff ==
  [][Refreshed =>
       LET P == SeqSet(refresh.previous)
           N == SeqSet(topAddresses')
       IN  /\ SeqSet(ev'.added) = N \ P
           /\ SeqSet(ev'.removed) = P \ N
           /\ SeqSet(ev'.added) \cap SeqSet(ev'.removed) = {}
           /\ \A a \in P \cap N :
                /\ (a \in activeSubscriptions') = (a \in activeSubscriptions)
                /\ \A c \in ConnIds : (a \in conns'[c].sent) = (a \in conns[c].sent)
                /\ (userPositions'[a] = NoMap) = (userPositions[a] = NoMap)]_vars

\* A refresh has added one address and removed another.
C17_Witness ==
  /\ ev.op = "refreshed"
  /\ ev.added # <<>>
  /\ ev.removed # <<>>

\* C18: when a reconciliation has completed, every active subscription is for
\* an address of the target set.
C18_SubscriptionsWithinTargets ==
  (ev.op = "refreshed" /\ refresh.pc = "idle") => activeSubscriptions \subseteq TargetSet

\* C19: if from some time on the current connection stays open, then again and
\* again every address of the target set has an active subscription.
C19_TargetsEventuallySubscribed ==
  (<>[]IsOpen(conns, ws)) => []<>(TargetSet \subseteq activeSubscriptions)

\* C20: no connection has been sent a second subscribe frame for an address it
\* holds a subscription for.
C20_NoSecondSubscribe ==
  \A c \in ConnIds : conns[c].dup = {}

\* A refresh has subscribed an added address on the open connection, which
\* holds other subscriptions already.
C20_Witness ==
  /\ ev.op = "refreshed"
  /\ ev.added # <<>>
  /\ IsOpen(conns, ws)
  /\ SeqSet(ev.added) \subseteq conns[ws].sent
  /\ conns[ws].sent # SeqSet(ev.added)
  /\ \A c \in ConnIds : conns[c].dup = {}

(***************************************************************************)
(* Properties of the subscription batches and of the startup order.        *)
(***************************************************************************)
\* ceil(n / SUBSCRIPTION_BATCH_SIZE)
BatchesOf(n) == (n + SUBSCRIPTION_BATCH_SIZE - 1) \div SUBSCRIPTION_BATCH_SIZE
IndexIn(q, a) == CHOOSE i \in DOMAIN q : q[i] = a
Min(i, j) == IF i <= j THEN i ELSE j

\* Until the first refresh topAddresses is the target set of the pass.
BeforeRefresh == refresh.n = 0 /\ refresh.pc = "idle"

\* What the pass has dispatched so far: batches of at most SUBSCRIPTION_BATCH_SIZE
\* frames, one batch for every SUBSCRIPTION_BATCH_SIZE addresses taken from the
\* queue, a delay of SUBSCRIPTION_DELAY after every batch but the last; with the
\* connection open all along the batches are full, but for the last.
BatchesSoFar ==
  LET n == Len(topAddresses)
      taken == n - Len(subscriptionQueue)
      batches == Len(pass.frames)
  IN  /\ \A i \in DOMAIN pass.frames : pass.frames[i] <= SUBSCRIPTION_BATCH_SIZE
      /\ \A i \in DOMAIN pass.delays : pass.delays[i] = SUBSCRIPTION_DELAY
      /\ isSubscribing =>
            /\ batches = BatchesOf(taken)
            /\ Len(pass.delays) = IF pass.pc = "delay" THEN batches ELSE batches - 1
      /\ sm.pc = "done" =>
            /\ batches = BatchesOf(n)
            /\ Len(pass.delays) = IF n = 0 THEN 0 ELSE batches - 1
            /\ IsOpen(conns, ws) =>
                  \A i \in DOMAIN pass.frames :
                    pass.frames[i] = Min(SUBSCRIPTION_BATCH_SIZE,
                                         n - SUBSCRIPTION_BATCH_SIZE * (i - 1))

\* A step of the pass sends at most one frame (each is followed by the request
\* of the snapshot), for an address later in the queue than those subscribed.
FramesInQueueOrder ==
  LET new == activeSubscriptions' \ activeSubscriptions
  IN  /\ Cardinality(new) <= 1
      /\ \A a \in new : \A b \in activeSubscriptions :
            IndexIn(topAddresses, b) < IndexIn(topAddresses, a)

\* C21: the pass over n addresses dispatches ceil(n/10) batches of at most 10
\* subscribe frames, in the order of the queue, with a delay of SUBSCRIPTION_DELAY
\* between two batches and none after the last.
C21_SubscriptionBatches ==
  /\ [](BeforeRefresh => BatchesSoFar)
  /\ [][BeforeRefresh /\ BeforeRefresh' => FramesInQueueOrder]_vars

\* 25 addresses were subscribed in 3 batches with 2 delays.
C21_Witness ==
  /\ BeforeRefresh /\ sm.pc = "done"
  /\ Len(topAddresses) = 25
  /\ Cardinality(activeSubscriptions) = 25
  /\ pass.frames = <<10, 10, 5>>
  /\ pass.delays = <<SUBSCRIPTION_DELAY, SUBSCRIPTION_DELAY>>

\* The frames of one step, between which no delay is awaited: the addresses it
\* subscribes and those it unsubscribes.
FramesOfStep ==
  (activeSubscriptions' \ activeSubscriptions) \cup (activeSubscriptions \ activeSubscriptions')

\* C22: no more than 10 subscribe and unsubscribe frames are sent without a
\* delay between them, in the pass of the startup and in every refresh.
C22_ChurnWithinBudget ==
  [][Cardinality(FramesOfStep) <= SUBSCRIPTION_BATCH_SIZE]_vars

NoFrameSent == activeSubscriptions = {} /\ \A c \in ConnIds : conns[c].sent = {}

\* The refresh timer is started by this step.
TimerStarted == ~leaderboardUpdateInterval /\ leaderboardUpdateInterval'

\* C30: no subscribe frame is sent before the first leaderboard request has
\* returned; the refresh timer is started only when the pass over the whole
\* target set has finished; startMonitoring called while running starts nothing.
C30_StartupOrdering ==
  /\ [](sm.pc \in {"tested", "leaderboard"} => NoFrameSent /\ ~leaderboardUpdateInterval)
  /\ [][TimerStarted =>
          /\ sm'.pc = "done" /\ pass'.pc = "idle" /\ ~isSubscribing'
          /\ subscriptionQueue' = <<>>
          /\ Len(pass'.frames) = BatchesOf(Len(topAddresses'))
          /\ IsOpen(conns', ws') => SeqSet(topAddresses') \subseteq activeSubscriptions']_vars
  /\ [][ev'.op = "start" =>
          UNCHANGED <<isRunning, connVars, subVars, storeVars, seenAlerts>>]_vars

\* startMonitoring is called again after it subscribed 25 addresses and started
\* the timer.
C30_Witness ==
  /\ ev.op = "start" /\ sm.pc = "done" /\ leaderboardUpdateInterval
  /\ Len(topAddresses) = 25 /\ Cardinality(activeSubscriptions) = 25

(***************************************************************************)
(* updateLeaderboard on the payloads of the leaderboard endpoint.  A       *)
(* payload is no data at all, a text, a list of entries, or an object whose *)
(* fields are listed in the order of Object.entries; the request can also  *)
(* fail.                                                                   *)
(* A property of an entry that is missing or falsy is "".                  *)
(***************************************************************************)
TOP_TRADERS_COUNT == 100
MaxRanking == 103     \* entries of the longest ranking

Entry(user, address, wallet, ethAddress) ==
  [null |-> FALSE, user |-> user, address |-> address, wallet |-> wallet,
   ethAddress |-> ethAddress]
NullEntry == [null |-> TRUE, user |-> "", address |-> "", wallet |-> "", ethAddress |-> ""]
ArrayValue(items) == [type |-> "array", items |-> items]
FalsyValue == [type |-> "falsy", items |-> <<>>]
ObjectValue == [type |-> "object", items |-> <<>>]
Field(key, value) == [key |-> key, value |-> value]

RequestError == [type |-> "error", items |-> <<>>, fields |-> <<>>]
NoData == [type |-> "none", items |-> <<>>, fields |-> <<>>]
TextPayload == [type |-> "text", items |-> <<>>, fields |-> <<>>]
ListPayload(items) == [type |-> "array", items |-> items, fields |-> <<>>]
ObjectPayload(fields) == [type |-> "object", items |-> <<>>, fields |-> fields]

\* entry.user || entry.address || entry.ethAddress, lines 167-168 and 173-174
AddressOfEntry(e) ==
  IF e.user # "" THEN e.user ELSE IF e.address # "" THEN e.address ELSE e.ethAddress

\* entry.user || entry.address || entry.wallet || entry.ethAddress, lines 181-182
AddressOfEntryWallet(e) ==
  IF e.user # "" THEN e.user ELSE IF e.address # "" THEN e.address
  ELSE IF e.wallet # "" THEN e.wallet ELSE e.ethAddress

\* slice(0, TOP_TRADERS_COUNT) taking every address (a variant).
SliceTopAll(addresses) == addresses

\* slice(0, this.TOP_TRADERS_COUNT), lines 170, 176 and 186
SliceTop(addresses) ==
  IF Len(addresses) <= TOP_TRADERS_COUNT THEN addresses
  ELSE SubSeq(addresses, 1, TOP_TRADERS_COUNT)

\* new Set(addresses), line 194: the first occurrence of each address, in order
SetOfSeq(addresses) ==
  LET idx == SelectSeq([i \in 1..Len(addresses) |-> i],
                       LAMBDA i : \A j \in 1..(i - 1) : addresses[j] # addresses[i])
  IN  [k \in 1..Len(idx) |-> addresses[idx[k]]]

\* The filter and map of lines 166-169 and 172-175 on a list without null.
ListAddresses(items) ==
  LET kept == SelectSeq(items, LAMBDA e : AddressOfEntry(e) # "")
  IN  [i \in 1..Len(kept) |-> AddressOfEntry(kept[i])]

\* The filter and map of lines 180-183: null entries are passed over.
TestAddresses(items) ==
  LET kept == SelectSeq(items, LAMBDA e : ~e.null /\ AddressOfEntryWallet(e) # "")
  IN  [i \in 1..Len(kept) |-> AddressOfEntryWallet(kept[i])]

HasNull(items) == \E i \in 1..Len(items) : items[i].null

\* Lines 165-170 and 171-176: entry.user of a null entry throws, which the catch
\* of line 202 takes.
ParseList(items) ==
  IF HasNull(items) THEN [kind |-> "fail", addresses |-> <<>>]
  ELSE [kind |-> "ok", addresses |-> SetOfSeq(SliceTop(ListAddresses(items)))]

\* The loop of lines 178-190: the first field that is a non-empty array with
\* an address in it.
ParseFields(fields) ==
  LET found == SelectSeq(fields, LAMBDA f : f.value.type = "array"
                                            /\ TestAddresses(f.value.items) # <<>>)
  IN  [kind |-> "ok",
       addresses |-> IF found = <<>> THEN <<>>
                     ELSE SetOfSeq(SliceTop(TestAddresses(found[1].value.items)))]

\* data.leaderboard, line 171: the value of the field, falsy when there is none.
LeaderboardField(fields) ==
  LET named == SelectSeq(fields, LAMBDA f : f.key = "leaderboard")
  IN  IF named = <<>> THEN FalsyValue ELSE named[1].value

\* Lines 148-204: what updateLeaderboard makes of the answer to its request.
\* filter() of a value that is no array throws; a text is no array and no
\* object and gives no address.
ParseLeaderboard(data) ==
  IF data.type = "error" THEN [kind |-> "fail", addresses |-> <<>>]
  ELSE IF data.type = "none" THEN [kind |-> "empty", addresses |-> <<>>]
  ELSE IF data.type = "text" THEN [kind |-> "ok", addresses |-> <<>>]
  ELSE IF data.type = "array" THEN ParseList(data.items)
  ELSE LET lb == LeaderboardField(data.fields)
       IN  IF lb.type = "array" THEN ParseList(lb.items)
           ELSE IF lb.type = "object" THEN [kind |-> "fail", addresses |-> <<>>]
           ELSE ParseFields(data.fields)

\* updateLeaderboard called on a payload; probe keeps the payload.
LeaderboardUpdated(data) ==
  LET resp == ParseLeaderboard(data)
  IN  /\ topAddresses' = UpdateLeaderboard(topAddresses, resp)
      /\ probe' = [data |-> data, done |-> TRUE]
      /\ ev' = [NoEvent EXCEPT !.op = "leaderboard", !.note = LeaderboardNote(resp)]
      /\ UNCHANGED <<isRunning, leaderboardUpdateInterval, activeSubscriptions,
                     subscriptionQueue, isSubscribing, sm, pass, refresh,
                     seenAlerts, connVars, storeVars>>

(***************************************************************************)
(* SpecCap: updateLeaderboard any number of times on rankings of up to     *)
(* MaxRanking entries, as a list or under a field of an object.            *)
(***************************************************************************)
RankName(i) == "r" \o ToString(i)
\* n entries from the one ranked `from`; every gap-th has no address and every
\* dup-th names the address before it again (0: none).
Ranking(from, n, gap, dup) ==
  [i \in 1..n |->
     IF gap > 0 /\ i % gap = 0 THEN Entry("", "", "", "")
     ELSE IF dup > 0 /\ i % dup = 0 THEN Entry(RankName(from + i - 2), "", "", "")
     ELSE Entry(RankName(from + i - 1), "", "", "")]
RankingForms == {<<0, 0>>, <<7, 0>>, <<0, 50>>}
Rankings ==
  { Ranking(from, n, f[1], f[2]) :
      from \in {1, 3}, n \in {0, 2, 8, TOP_TRADERS_COUNT, TOP_TRADERS_COUNT + 1, MaxRanking},
      f \in RankingForms }
CapPayloads ==
  {RequestError, NoData, TextPayload}
    \cup { ListPayload(r) : r \in Rankings }
    \cup { ObjectPayload(<<Field("leaderboard", ArrayValue(r))>>) : r \in Rankings }
    \cup { ObjectPayload(<<Field("total", ObjectValue), Field("rows", ArrayValue(r))>>) : r \in Rankings }

InitCap == Constructed /\ probe = [data |-> NoData, done |-> FALSE]
NextCap == \E d \in CapPayloads : LeaderboardUpdated(d)
SpecCap == InitCap /\ [][NextCap]_vars

(***************************************************************************)
(* SpecParse: updateLeaderboard called once on a small payload of any      *)
(* shape: lists, and objects of one or two fields.                         *)
(***************************************************************************)
ShapeItems ==
  { <<>>,
    <<Entry("", "", "", "")>>,
    <<Entry("a1", "", "", "")>>,
    <<Entry("", "", "a2", "")>>,
    <<NullEntry, Entry("", "a1", "", "a2")>>,
    <<Entry("", "", "", "a2"), Entry("a1", "a2", "a2", "")>>,
    <<Entry("", "", "a2", "a1"), Entry("", "", "", "")>> }
ShapeValues == {FalsyValue, ObjectValue} \cup { ArrayValue(i) : i \in ShapeItems }
ShapeKeys == {"leaderboard", "rows", "traders"}
ShapePayloads ==
  {RequestError, NoData, TextPayload}
    \cup { ListPayload(i) : i \in ShapeItems }
    \cup { ObjectPayload(<<Field(k, v)>>) : k \in ShapeKeys, v \in ShapeValues }
    \cup { ObjectPayload(<<Field(k[1], v), Field(k[2], w)>>) :
             k \in {q \in ShapeKeys \X ShapeKeys : q[1] # q[2]},
             v \in ShapeValues, w \in ShapeValues }

InitParse == Constructed /\ \E d \in ShapePayloads : probe = [data |-> d, done |-> FALSE]
ParseProbe == ~probe.done /\ LeaderboardUpdated(probe.data)
SpecParse == InitParse /\ [][ParseProbe]_vars

(***************************************************************************)
(* SpecSlow: a fill message for a1 has arrived and its handler awaits its  *)
(* request, which answers at any time; meanwhile messages for a2 arrive.   *)
(***************************************************************************)
SlowKinds == {"small", "q150"}
InitSlow ==
  /\ Monitoring(Addrs)
  /\ \E seeded \in SUBSET Addrs :
       \E t \in [seeded -> Snapshots({"BTC"}, SlowKinds)] :
         LET up == [a \in Addrs |-> IF a \in seeded
                                    THEN CHOOSE i \in 1..Len(AddrSeq) : AddrSeq[i] = a
                                    ELSE NoMap]
             hp == [k \in MapIds |->
                      IF k <= Len(AddrSeq) /\ AddrSeq[k] \in seeded
                      THEN SnapMap(t[AddrSeq[k]]) ELSE EmptyMap]
             hs == [h \in HandlerIds |->
                      IF h = 1 THEN [phase |-> IF up["a1"] = NoMap THEN "load" ELSE "fetch",
                                     addr |-> "a1", fills |-> <<"BTC">>, map |-> up["a1"]]
                      ELSE IdleHandler]
             r == Renumber(up, hp, hs)
         IN  userPositions = r.up /\ heap = r.hp /\ handlers = r.hs
  /\ seenAlerts = <<>>
  /\ ev = [NoEvent EXCEPT !.op = "message", !.h = 1, !.addr = "a1"]
  /\ probe = NoProbe

NextSlow ==
  \/ \E f \in FillSeqs({"BTC"}), b \in BOOLEAN : FillMessage(2, "a2", f, b)
  \/ \E h \in HandlerIds, r \in Responses({"BTC"}, SlowKinds) : HandleFillLoaded(h, r)
  \/ \E h \in HandlerIds, r \in Responses({"BTC"}, SlowKinds) : HandleFillFetched(h, r)

SpecSlow == InitSlow /\ [][NextSlow]_vars

(***************************************************************************)
(* SpecAlert: the fill handling of one address and one instrument, one     *)
(* handler at a time, with long, short, small and low-leverage positions.  *)
(***************************************************************************)
AlertKinds == {"small", "short", "lowlev", "q150", "q120x"}
InitAlert == InitFillOn(FillAddrs, {"BTC"}, AlertKinds)
NextAlert == NextFillOn({1}, FillAddrs, {"BTC"}, AlertKinds)
SpecAlert == InitAlert /\ [][NextAlert]_vars

(***************************************************************************)
(* SpecStay: a1 holds a qualifying BTC position in every snapshot, the one *)
(* that seeds its table included.  The refresh drops and adds a1, fills    *)
(* arrive while it is subscribed, two handlers overlap.                    *)
(***************************************************************************)
StayKinds == {"q150", "q160"}
StayResponses ==
  {Ok(s) : s \in [{"BTC"} -> StayKinds]} \cup {Failed(f) : f \in Failures}

InitStay ==
  /\ \E addrs \in SUBSET FillAddrs : Monitoring(addrs)
  /\ \E seeded \in SUBSET SeqSet(topAddresses) :
       \E t \in [seeded -> [{"BTC"} -> StayKinds]] :
         LET up == [a \in Addrs |-> IF a \in seeded
                                    THEN CHOOSE i \in 1..Len(AddrSeq) : AddrSeq[i] = a
                                    ELSE NoMap]
             hp == [k \in MapIds |->
                      IF k <= Len(AddrSeq) /\ AddrSeq[k] \in seeded
                      THEN SnapMap(t[AddrSeq[k]]) ELSE EmptyMap]
             r == Renumber(up, hp, [h \in HandlerIds |-> IdleHandler])
         IN  userPositions = r.up /\ heap = r.hp
  /\ handlers = [h \in HandlerIds |-> IdleHandler]
  /\ seenAlerts = <<>>
  /\ ev = NoEvent
  /\ probe = NoProbe

NextStay ==
  \/ RefreshTick
  \/ \E r \in Leaderboards(FillAddrs) : RefreshFetched(r)
  \/ \E r \in StayResponses : RefreshSeeded(r)
  \/ \E h \in HandlerIds, a \in FillAddrs, b \in BOOLEAN :
       FirstIdle(HandlerIds, h) /\ OnWire(a) /\ FillMessage(h, a, <<"BTC">>, b)
  \/ \E h \in HandlerIds, r \in StayResponses : HandleFillLoaded(h, r)
  \/ \E h \in HandlerIds, r \in StayResponses : HandleFillFetched(h, r)

SpecStay == InitStay /\ [][NextStay]_vars

(***************************************************************************)
(* SpecStop: the fill handling of a running engine, and stop() called at   *)
(* any time.  Messages arrive only on the open socket; the handlers in     *)
(* flight go on when their requests answer.                                *)
(***************************************************************************)
NextStop ==
  \/ \E h \in HandlerIds, a \in FillAddrs, f \in FillSeqs({"BTC"}), b \in BOOLEAN :
       FirstIdle(HandlerIds, h) /\ OnWire(a) /\ FillMessage(h, a, f, b)
  \/ \E h \in HandlerIds, r \in Responses({"BTC"}, {"small", "q150", "q160"}) :
       HandleFillLoaded(h, r)
  \/ \E h \in HandlerIds, r \in Responses({"BTC"}, {"small", "q150", "q160"}) :
       HandleFillFetched(h, r)
  \/ Stop

SpecStop == InitFill /\ [][NextStop]_vars

(***************************************************************************)
(* SpecOrder: two requests of handleFill for a1 in flight, answered in any *)
(* order.  a1 has a table, so every message sends its request at once; a   *)
(* message goes to handler 1 when nothing is in flight and to handler 2    *)
(* while the request of handler 1 is pending, so that of two requests in   *)
(* flight the one of handler 1 was sent first.                             *)
(***************************************************************************)
OrderKinds == {"small", "q150", "q160"}
InitOrder ==
  /\ InitFillOn(FillAddrs, {"BTC"}, OrderKinds)
  /\ \A a \in FillAddrs : userPositions[a] # NoMap

NextOrder ==
  \/ \E a \in FillAddrs, b \in BOOLEAN :
       (\A h \in HandlerIds : handlers[h].phase = "idle") /\ FillMessage(1, a, <<"BTC">>, b)
  \/ \E a \in FillAddrs, b \in BOOLEAN :
       handlers[1].phase = "fetch" /\ FillMessage(2, a, <<"BTC">>, b)
  \/ \E h \in HandlerIds, r \in Responses({"BTC"}, OrderKinds) : HandleFillFetched(h, r)

SpecOrder == InitOrder /\ [][NextOrder]_vars

(***************************************************************************)
(* Properties of the leaderboard registry.                                 *)
(***************************************************************************)
\* The entries of the ranking a payload of CapPayloads carries.
RankingOf(data) ==
  IF data.type = "array" THEN data.items
  ELSE IF data.type = "object" THEN data.fields[Len(data.fields)].value.items
  ELSE <<>>
\* The entries of the ranking that name an address, and how many of them
\* there are up to entry i.
Named(items, i) == items[i].user # ""
NamedUpTo(items, i) == Cardinality({ j \in 1..i : Named(items, j) })
FirstAt(items, a) ==
  CHOOSE i \in 1..Len(items) : items[i].user = a /\ \A j \in 1..(i - 1) : items[j].user # a

\* The entry the slice ends with: the one naming the TOP_TRADERS_COUNT-th
\* address, or the last entry of a ranking that names no more than that.
CutAt(items) ==
  IF NamedUpTo(items, Len(items)) <= TOP_TRADERS_COUNT THEN Len(items)
  ELSE CHOOSE c \in TOP_TRADERS_COUNT..Len(items) :
         Named(items, c) /\ NamedUpTo(items, c) = TOP_TRADERS_COUNT

\* top holds the addresses of the first TOP_TRADERS_COUNT entries of the
\* ranking that name one, each once, in the order of the ranking.
HeadOfRanking(top, items) ==
  /\ SeqSet(top) = { items[i].user : i \in { j \in 1..CutAt(items) : Named(items, j) } }
  /\ \A k \in 1..(Len(top) - 1) : FirstAt(items, top[k]) < FirstAt(items, top[k + 1])

Exposed(items) == TestAddresses(items)
\* The first field of an object that is an array whose entries expose an
\* address: its position, or 0.
FirstAddressField(fields) ==
  IF \E i \in 1..Len(fields) : fields[i].value.type = "array" /\ Exposed(fields[i].value.items) # <<>>
  THEN CHOOSE i \in 1..Len(fields) :
         /\ fields[i].value.type = "array" /\ Exposed(fields[i].value.items) # <<>>
         /\ \A j \in 1..(i - 1) :
              ~(fields[j].value.type = "array" /\ Exposed(fields[j].value.items) # <<>>)
  ELSE 0

\* C34: for an object the addresses are those of the first array-valued field
\* whose entries expose an address, a field without one being passed over; when
\* such a field exists the update takes its addresses.
C34_FirstAddressField ==
  [][(ev'.op = "leaderboard" /\ probe'.data.type = "object"
        /\ FirstAddressField(probe'.data.fields) # 0)
      => /\ ev'.note = "ok"
         /\ SeqSet(topAddresses')
              = SeqSet(Exposed(probe'.data.fields[FirstAddressField(probe'.data.fields)].value.items))]_vars

(***************************************************************************)
(* Properties of the position store.                                       *)
(***************************************************************************)
HasTable(up, a) == up[a] # NoMap
TableIn(up, hp, a) == IF HasTable(up, a) THEN hp[up[a]] ELSE EmptyMap

\* No refresh and no handler is in flight.
Quiescent == refresh.pc = "idle" /\ \A h \in HandlerIds : handlers[h].phase = "idle"

\* C23: once the refresh that removed address A and the handlers in flight have
\* finished, the position store has no entry for A while A is outside the target
\* set.
C23_RemovedStaysDiscarded ==
  Quiescent => \A a \in Addrs \ TargetSet : ~HasTable(userPositions, a)

\* C24: two reconcile cycles for one address never overlap: while a cycle for A
\* is between its read of the store and its write, no other cycle for A has read
\* the store or issued its request.
C24_SerializedPerAddress ==
  \A h, g \in HandlerIds :
    (h # g /\ handlers[h].phase # "idle" /\ handlers[g].phase # "idle")
      => handlers[h].addr # handlers[g].addr

\* C25: a message flagged as a replay of the initial state starts no request,
\* changes neither the position store nor the dedup cache, and emits no alert.
C25_ReplayIgnored ==
  [][ev'.op = "replay" =>
       /\ UNCHANGED <<userPositions, heap, handlers, seenAlerts>>
       /\ ev'.emitted = <<>>]_vars

\* A replay has arrived for an address with a table.
C25_Witness == ev.op = "replay" /\ HasTable(userPositions, ev.addr)

\* The request of a fill handler has returned no list of positions.
FetchFailed == ev'.op \in {"load", "nofetch", "fill"} /\ ev'.note \in {"fail", "malformed"}

\* C26: when the snapshot request of a fill handler fails or returns a payload
\* without a list of positions, the tables of the position store and the dedup
\* cache are unchanged, no alert is emitted, and the handler goes on.
C26_FailedFetchNoChange ==
  [][FetchFailed =>
       /\ \A a \in DOMAIN userPositions :
            /\ HasTable(userPositions', a) = HasTable(userPositions, a)
            /\ TableIn(userPositions', heap', a) = Table(a)
       /\ seenAlerts' = seenAlerts
       /\ ev'.emitted = <<>>
       /\ ev'.op # "fill"
       /\ handlers'[ev'.h].phase \in {"idle", "load", "fetch"}]_vars

\* The request for an address with a table has returned a payload without a list
\* of positions.
C26_Witness ==
  /\ ev.op = "nofetch" /\ ev.note = "malformed"
  /\ HasTable(userPositions, ev.addr) /\ Table(ev.addr) # EmptyMap

\* C27: when the store has a position for (A, I) and the snapshot has none, no
\* alert is emitted and the stored position is cleared; a handler started later
\* reads the stored table, and a position in an instrument its table lacks is
\* compared with "absent" and alerts when it qualifies.
C27_PositionClosed ==
  /\ [][(FillStep /\ MapHas(Table(ev'.addr), ev'.coin) /\ ev'.current = NoPos) =>
          /\ ev'.emitted = <<>>
          /\ HasTable(userPositions', ev'.addr)
          /\ ~MapHas(TableIn(userPositions', heap', ev'.addr), ev'.coin)]_vars
  /\ [][(ev'.op = "message" /\ HasTable(userPositions, ev'.addr)) =>
          /\ handlers'[ev'.h].map = userPositions'[ev'.addr]
          /\ heap'[handlers'[ev'.h].map] = Table(ev'.addr)]_vars
  /\ [][(FillStep /\ ~MapHas(TableRead, ev'.coin) /\ ev'.current # NoPos) =>
          /\ ev'.previous = NoPos
          /\ (IsQualifyingPosition(ev'.current)
                /\ ~SeqHas(seenAlerts, AlertId(ev'.addr, ev'.current)))
               => ev'.emitted = <<Alert(ev'.addr, ev'.current)>>]_vars

\* A position of the store was closed, another one of the address is kept.
C27_Witness ==
  /\ ev.op = "fill" /\ ev.previous # NoPos /\ ev.current = NoPos
  /\ ev.emitted = <<>>
  /\ ~MapHas(Table(ev.addr), ev.coin) /\ Table(ev.addr) # EmptyMap

\* The addresses a subscribe frame is sent for by this step.
Framed == { a \in DOMAIN userPositions : a \in conns'[ws'].sent /\ a \notin conns[ws].sent }

\* C28: an address a subscribe frame is sent for is recorded as subscribed in the
\* same step, and its snapshot is requested; when the request succeeds the table
\* of the address holds exactly the positions of the snapshot.
C28_SubscribedAndSeeded ==
  /\ [][(ws' = ws /\ ws # NoConn) =>
          \A a \in Framed :
            /\ a \in activeSubscriptions'
            /\ \/ refresh'.pc = "seed" /\ refresh'.addr = a
               \/ pass'.pc = "seed" /\ pass'.addr = a]_vars
  /\ [][(ev'.op = "seeded" /\ ev'.note = "ok") =>
          /\ HasTable(userPositions', ev'.addr)
          /\ TableIn(userPositions', heap', ev'.addr) = ev'.snap]_vars

\* A request answered with a list of no positions.
NoPositions == ev'.op \in {"seeded", "load", "fill"} /\ ev'.note = "ok" /\ ev'.snap = EmptyMap

\* C29: a snapshot without positions is stored as an existing, empty table; a
\* later fill of the address is handled with that table, every instrument
\* compared with "absent".
C29_EmptyTableKept ==
  /\ [][NoPositions =>
          /\ HasTable(userPositions', ev'.addr)
          /\ TableIn(userPositions', heap', ev'.addr) = EmptyMap]_vars
  /\ [][(ev'.op = "message" /\ HasTable(userPositions, ev'.addr)
            /\ Table(ev'.addr) = EmptyMap) =>
          /\ handlers'[ev'.h].phase = "fetch"
          /\ heap'[handlers'[ev'.h].map] = EmptyMap]_vars
  /\ [][(FillStep /\ TableRead = EmptyMap) =>
          /\ ev'.previous = NoPos
          /\ (IsQualifyingPosition(ev'.current)
                /\ ~SeqHas(seenAlerts, AlertId(ev'.addr, ev'.current)))
               => Len(ev'.emitted) = 1]_vars

\* A fill of an address with an empty table found a qualifying position and
\* emitted its alert.
C29_Witness ==
  /\ ev.op = "fill" /\ ev.previous = NoPos /\ Len(ev.emitted) = 1
  /\ Cardinality(DOMAIN Table(ev.addr)) = 1
  /\ seenAlerts # <<>>

(***************************************************************************)
(* Properties of concurrent handlers.                                      *)
(***************************************************************************)
\* The handler of a1 is still awaiting a request.
SlowPending == handlers[1].phase # "idle" /\ handlers[1].addr = "a1"

\* C31: while the request of the handler of a1 is pending, a message for a2 is
\* taken at once, its own requests can answer, its steps leave the handler of
\* a1 as it is, and its fill is compared and alerts as if a1 were not pending.
C31_OtherAddressNotDelayed ==
  /\ [](SlowPending =>
         /\ handlers[2].phase = "idle" => ENABLED FillMessage(2, "a2", <<"BTC">>, FALSE)
         /\ handlers[2].phase = "load" => ENABLED HandleFillLoaded(2, Failed("fail"))
         /\ handlers[2].phase = "fetch" => ENABLED HandleFillFetched(2, Failed("fail")))
  /\ [][(SlowPending /\ ev'.h = 2) =>
          /\ handlers'[1].phase = handlers[1].phase
          /\ handlers'[1].addr = handlers[1].addr
          /\ handlers'[1].fills = handlers[1].fills]_vars
  /\ [][(SlowPending /\ FillStep /\ ev'.h = 2) =>
          (Len(ev'.emitted) = 1) =
            (/\ ev'.current # NoPos
             /\ IsNewQualifying(ev'.previous, ev'.current)
             /\ ~SeqHas(seenAlerts, AlertId(ev'.addr, ev'.current)))]_vars

\* A fill of a2 was fetched, compared and alerted while the request of a1,
\* sent before the message of a2 arrived, is still pending.
C31_Witness ==
  /\ SlowPending /\ handlers[1].phase = "fetch"
  /\ ev.op = "fill" /\ ev.h = 2 /\ ev.addr = "a2" /\ Len(ev.emitted) = 1
  /\ handlers[2].phase = "idle"

(***************************************************************************)
(* Properties of the subscription pass.                                    *)
(***************************************************************************)
\* The seeding request of the pass has failed.
PassSeedFailed ==
  /\ pass.pc = "seed" /\ pass' # pass
  /\ ev'.op = "seeded" /\ ev'.addr = pass.addr /\ ev'.note \in Failures

\* The addresses the pass has still to handle.
PassRest(p, queue) == SeqSet(p.batch) \cup SeqSet(queue)

\* C32: when the seeding request of an address fails during a subscription pass,
\* the address stays subscribed and gets no table, the pass goes on with the
\* rest of its batch and of the queue (subscribing them while the connection is
\* open), and when it ends the queue is empty and isSubscribing is reset.
C32_PassSurvivesFailure ==
  [][PassSeedFailed =>
       /\ activeSubscriptions \subseteq activeSubscriptions'
       /\ HasTable(userPositions', pass.addr) = HasTable(userPositions, pass.addr)
       /\ IsOpen(conns, ws) =>
            PassRest(pass, subscriptionQueue)
              \subseteq activeSubscriptions' \cup PassRest(pass', subscriptionQueue')
       /\ pass'.pc \in {"seed", "delay", "idle"}
       /\ pass'.pc = "idle" => ~isSubscribing' /\ subscriptionQueue' = <<>>
       /\ pass'.pc # "idle" => isSubscribing']_vars

\* The seeding of a1 has failed: a1 is subscribed without a table, and the pass
\* has gone on to subscribe a2 and awaits its seeding.
C32_Witness ==
  /\ ev.op = "seeded" /\ ev.note \in Failures /\ ev.addr = "a1"
  /\ "a1" \in activeSubscriptions /\ ~HasTable(userPositions, "a1")
  /\ pass.pc = "seed" /\ pass.addr = "a2" /\ "a2" \in activeSubscriptions
  /\ isSubscribing

(***************************************************************************)
(* Properties of the alerts.                                               *)
(***************************************************************************)
\* The handler of this fill found no table for its address when the message
\* arrived, and has just loaded one (lines 404-406).
LoadedJustNow == ev.op = "load" /\ ev.note = "ok" /\ ev.h = ev'.h /\ ev.addr = ev'.addr

\* C35: a fill for instrument I of an address that had no table is an
\* absent->present transition: when the snapshot shows a qualifying position
\* in I (not alerted before), an alert is emitted.
C35_NoTableIsAbsent ==
  [][(FillStep /\ LoadedJustNow /\ ev'.current # NoPos
        /\ IsQualifyingPosition(ev'.current)
        /\ ~SeqHas(seenAlerts, AlertId(ev'.addr, ev'.current)))
      => Len(ev'.emitted) = 1]_vars

\* The alert a describes the long position p of address and coin: side, size,
\* value and leverage, value and leverage at or above the thresholds.
DescribesQualifying(a, p, address, coin) ==
  /\ a.from = address /\ a.symbol = coin /\ p.coin = coin
  /\ a.side = "long" /\ p.szi.ok /\ p.szi.v > 0
  /\ a.amount = Magnitude(p.szi.v)
  /\ p.positionValue.ok
  /\ a.value_usd = Magnitude(p.positionValue.v)
  /\ a.value_usd >= MIN_POSITION_VALUE
  /\ Geq(CalculateLeverage(p), MIN_LEVERAGE)
  /\ a.leverage = MathRound(CalculateLeverage(p))
  /\ a.leverage >= MIN_LEVERAGE

\* C36: every alert handed to the callback describes the position of the
\* snapshot it was emitted for, and that position is long, worth at least
\* MIN_POSITION_VALUE and leveraged at least MIN_LEVERAGE times.
C36_AlertsQualify ==
  [][\A i \in 1..Len(ev'.emitted) :
       DescribesQualifying(ev'.emitted[i], ev'.current, ev'.addr, ev'.coin)]_vars

\* A long position that replaced a short one was alerted.
C36_Witness ==
  /\ ev.op = "fill" /\ Len(ev.emitted) = 1
  /\ ev.previous = PosOf("BTC", "short")
  /\ ev.current = PosOf("BTC", "q120x")
  /\ ev.emitted[1].leverage = 40 /\ ev.emitted[1].value_usd = 120000

\* C37: loading the first snapshot of an address emits no alert and records no
\* signature; a position that qualifies in that snapshot and in every later
\* one is never alerted, whatever its size becomes.
C37_SeedingNeverAlerts ==
  /\ [][ev'.op \in {"seeded", "load"} =>
          ev'.emitted = <<>> /\ seenAlerts' = seenAlerts]_vars
  /\ [](seenAlerts = <<>>)
  /\ [][ev'.emitted = <<>>]_vars

\* A fill found the seeded position grown into another value bucket, still
\* qualifying, and emitted nothing.
C37_Witness ==
  /\ ev.op = "fill" /\ ev.emitted = <<>> /\ seenAlerts = <<>>
  /\ ev.previous = PosOf("BTC", "q150") /\ ev.current = PosOf("BTC", "q160")
  /\ Table(ev.addr) = SnapMap([c \in {"BTC"} |-> "q160"])

\* C38: after stop() has been called the subscription set, the position store
\* and the dedup cache are empty and stay so, and no alert is emitted.
C38_QuietAfterStop ==
  /\ [](StopCalled =>
         /\ activeSubscriptions = {}
         /\ \A a \in DOMAIN userPositions : ~HasTable(userPositions, a)
         /\ seenAlerts = <<>>)
  /\ [][StopCalled => ev'.emitted = <<>>]_vars

\* The request sent first is answered last: the answer to handler 2 has just
\* been applied, and now the answer to handler 1 is.
AnsweredOutOfOrder ==
  /\ FillStep /\ ev'.h = 1
  /\ ev.op = "fill" /\ ev.h = 2 /\ ev.addr = ev'.addr
  /\ handlers[2].phase = "idle"

\* C39: when the answers of two requests in flight for one address are applied
\* out of order, the table left in the store is the snapshot of the request
\* sent last.
C39_LatestSnapshotKept ==
  [][AnsweredOutOfOrder =>
       TableIn(userPositions', heap', ev'.addr) = ev.snap]_vars

\* C40: an alert is emitted only for an address that is, when the alert is
\* emitted, in the target set and in the set of active subscriptions.
C40_OnlyMonitoredAlert ==
  [][ev'.emitted # <<>> =>
       /\ ev'.addr \in TargetSet'
       /\ ev'.addr \in activeSubscriptions']_vars

====
